---- MODULE Spec2Model ----
(***************************************************************************)
(* A model of the agent-to-agent backend: the event bus in its two         *)
(* backends (InMemoryEventBus, RabbitMQEventBus), the orchestrator's       *)
(* orchestrateAsync state machine and Agent.execute.                       *)
(*                                                                         *)
(* JavaScript runs one job at a time, so one action of the model is one    *)
(* job of the event loop: the synchronous code of a call or callback       *)
(* together with the promise continuations it makes runnable, up to the    *)
(* point where every async function is suspended on something external     *)
(* (the Completion Service, the Tool Runner, the broker, a timer, a bus    *)
(* event).                                                                 *)
(***************************************************************************)
EXTENDS Integers, Sequences, FiniteSets, TLC

\* ------------------------------------------------------------------ bounds

\* publish calls made by the bus's callers in one behaviour of SpecBus
MaxPublishes == 2
\* subscribe calls made in one behaviour of SpecBus
MaxSubscribes == 2
\* successful connections to the broker in one behaviour
MaxConnects == 2
\* publish and subscribe calls in one behaviour of the smaller bus
\* specifications
MaxMessages == 2
MaxConsumers == 1
\* connect() calls that may fail in one behaviour
MaxAttempts == 3
\* clearQueue calls in one behaviour
MaxClears == 1
\* events published after the last clearQueue in one behaviour of SpecRetention
MaxRun == 1002
\* planning calls answered for one task in one behaviour
MaxRounds == 1
\* task_clarification_answer events published in one behaviour
MaxAnswers == 1
\* Agent.execute calls made directly in one behaviour of SpecAgent
MaxExecutes == 2
\* the milliseconds Date.now() advances in one behaviour
MaxClock == 1

\* ------------------------------------------------------- program constants

\* this.maxQueueSize = 1000 (both constructors)
maxQueueSize == 1000

\* the callback functions handed to subscribe(); the same function may be
\* handed to it more than once
Callbacks == {"f", "g"}

\* a callback function that answers the orchestrator's questions itself:
\* called with orchestrator_needs_clarification it publishes the
\* task_clarification_answer of that task before it returns
Repliers == {"r"}

\* a callback function that throws whenever it is called
Throwers == {"x"}

\* the partial events the bus's callers publish
PartialEvents == {[type |-> "ping"]}

\* JavaScript's undefined, as the value of a missing string field
Undefined == "undefined"

\* the event fields that hold a string, or undefined when the caller had none
StringFields == {"type", "taskId", "agentId", "answer"}

\* the task ids of the task store
Tasks == {"t1", "t2"}

\* the agents registered with the orchestrator when the server starts
RegisteredAgents == {"code", "design", "research"}

\* the orchestrator, itself an Agent
Orchestrator == "orchestrator"

\* the callers that await an Agent.execute call: the orchestration of a task,
\* or a direct caller
Owners == Tasks \cup {"caller"}

\* config.name of an agent
AgentName(id) ==
  CASE id = "code" -> "Code Agent"
    [] id = "design" -> "Design Agent"
    [] id = "research" -> "Research Agent"
    [] OTHER -> "Orchestrator"

\* the tools of the MCP server configured for an agent (mcpConfigs)
McpTools(id) == IF id = "code" THEN <<"read_file", "write_file">> ELSE <<>>

VARIABLES
  backend,          \* EVENT_BUS_TYPE: "memory" or "rabbitmq"
  eventQueue,       \* this.eventQueue
  subscribers,      \* this.subscribers, a Set of subscriber objects (their ids)
  listeners,        \* the EventEmitter's listener array of 'event'
  handles,          \* the functions subscribe() has returned, in call order
  isConnected,      \* RabbitMQEventBus.isConnected
  channel,          \* RabbitMQEventBus.channel: 0 is null, n the n-th channel
  consumers,        \* the broker's consumers: tag -> callback, channel, queue
  pendingSubscribe, \* per callback, its subscribe() retry timers running
  pendingConnects,  \* connect() calls scheduled or in flight
  nextSub,          \* the next subscriber id / consumer tag (uuidv4)
  clock,            \* Date.now()
  sinceClear,       \* history: the events published since the last clearQueue
  clears,           \* history: the number of clearQueue calls
  calls,            \* history: per callback, the events it was invoked with
  subLog,           \* history: per subscribe call, when it was made and undone
  amqp,             \* history of the calls made to the broker's client: the stamp
                    \* and channel of the last message published, the settlements, the
                    \* number of connect attempts and of close() calls
  tools,            \* per agent, this.tools (the names of its MCP tools)
  tasks,            \* the task store: taskId -> task
  orch,             \* per task, the frame of its orchestrateAsync call chain
  exec,             \* per caller, the frame of the Agent.execute call it awaits
  taskResults,      \* OrchestratorAgent.taskResults, a Map
  planCalls,        \* history: per task, the requests planning was called with
  delegations,      \* history: per task, the agent.execute calls of its steps
  synthCalls        \* history: per task, the synthesizeResults calls

busVars == <<backend, eventQueue, subscribers, listeners, handles, isConnected,
             channel, consumers, pendingSubscribe, pendingConnects, nextSub,
             clock, sinceClear, clears, calls, subLog, amqp>>

orchVars == <<tools, tasks, orch, exec, taskResults, planCalls, delegations,
              synthCalls>>

vars == <<busVars, orchVars>>

\* ------------------------------------------------------------------ helpers

\* { ...base, ...over }: object spread, later keys win
Merge(base, over) ==
  [k \in (DOMAIN base) \cup (DOMAIN over) |->
     IF k \in DOMAIN over THEN over[k] ELSE base[k]]

\* obj.k, undefined when the object has no such field
Get(obj, k) == IF k \in DOMAIN obj THEN obj[k] ELSE Undefined

\* the last entry of a sequence
Last(s) == s[Len(s)]

\* the set of entries of a sequence
Range(s) == {s[i] : i \in 1..Len(s)}

\* the position of the last entry of s equal to x, 0 when there is none
LastIndexOf(s, x) ==
  LET hits == {i \in 1..Len(s) : s[i] = x}
  IN IF hits = {} THEN 0 ELSE CHOOSE i \in hits : \A j \in hits : j <= i

\* s without its i-th entry
RemoveAt(s, i) == [j \in 1..(Len(s) - 1) |-> IF j < i THEN s[j] ELSE s[j + 1]]

\* the logical time of the bus: (clearQueue calls, events published since)
Now == <<clears, Len(sinceClear)>>

\* the order of logical times
Before(a, b) == a[1] < b[1] \/ (a[1] = b[1] /\ a[2] < b[2])

\* ------------------------------------------------------------ EventEmitter

\* the listener entry of a callback handed to subscribe()
CallbackListener(cb) == [kind |-> "callback", fn |-> cb]

\* emitter.on('event', listener): appended, duplicates kept
On(ls, l) == Append(ls, l)

\* emitter.off('event', listener): removes the most recently added instance
\* of the listener, and nothing when it is not registered
Off(ls, l) ==
  LET i == LastIndexOf(ls, l)
  IN IF i = 0 THEN ls ELSE RemoveAt(ls, i)

\* the listener entry of the handler of waitForClarificationAnswer(taskId)
WaitListener(t) == [kind |-> "wait", taskId |-> t]

\* the listener entry of the handler of the askClarification call made by
\* the orchestrate call c of agent: a new function each time, which compares
\* the event's agentId with this.id
AskListener(agent, c) == [kind |-> "ask", agentId |-> agent, call |-> c]

\* history: what a callback called with event e finds in the task store for
\* the task the event is about
Seen(store, e) ==
  IF Get(e, "taskId") \in DOMAIN store THEN store[e.taskId] ELSE <<>>

\* listeners whose clarification handler does not compare the taskId
Invoke_Mutant(b, l, e, at) ==
  IF l.kind = "callback"
  THEN [b EXCEPT !.calls[l.fn] =
          Append(@, [at |-> at, event |-> e, seen |-> Seen(b.tasks, e)])]
  ELSE IF Get(e, "type") = "task_clarification_answer"
       THEN [b EXCEPT !.listeners = Off(@, l),
                      !.resolved = Append(@, [taskId |-> l.taskId,
                                              answer |-> Get(e, "answer")])]
       ELSE b

\* listeners whose clarification handler resolves and stays registered
Invoke_Leaks(b, l, e, at) ==
  IF l.kind = "callback"
  THEN [b EXCEPT !.calls[l.fn] =
          Append(@, [at |-> at, event |-> e, seen |-> Seen(b.tasks, e)])]
  ELSE IF Get(e, "type") = "task_clarification_answer" /\ Get(e, "taskId") = l.taskId
       THEN [b EXCEPT !.resolved = Append(@, [taskId |-> l.taskId,
                                              answer |-> Get(e, "answer")])]
       ELSE b

\* eventBus.publish(event), defined below; a callback may call it
RECURSIVE Pub(_, _)

\* One listener called with event e. A subscriber's callback is invoked
\* (recorded in the history calls), and what it publishes is published inside
\* the call. The handler of waitForClarificationAnswer removes itself and
\* resolves its promise when the event is the answer for its task; the handler
\* of askClarification does so when the event is an agent_answer for the id
\* of its agent.
Invoke(b, l, e, at) ==
  IF l.kind = "callback"
  THEN LET b1 == [b EXCEPT !.calls[l.fn] =
                    Append(@, [at |-> at, event |-> e, seen |-> Seen(b.tasks, e)])]
       IN IF l.fn \in Repliers /\ Get(e, "type") = "orchestrator_needs_clarification"
          THEN Pub(b1, [type |-> "task_clarification_answer",
                        taskId |-> e.taskId, answer |-> "blue"])
          ELSE IF l.fn \in Throwers THEN [b1 EXCEPT !.threw = TRUE]
          ELSE b1
  ELSE IF l.kind = "ask"
       THEN IF Get(e, "type") = "agent_answer" /\ Get(e, "agentId") = l.agentId
            THEN [b EXCEPT !.listeners = Off(@, l),
                           !.answered = Append(@, [call |-> l.call,
                                                   answer |-> Get(e, "answer")])]
            ELSE b
  ELSE IF Get(e, "type") = "task_clarification_answer" /\ Get(e, "taskId") = l.taskId
       THEN [b EXCEPT !.listeners = Off(@, l),
                      !.resolved = Append(@, [taskId |-> l.taskId,
                                              answer |-> Get(e, "answer")])]
       ELSE b

\* emitter.emit('event', e): every listener of a copy of the listener array
\* taken when emit starts is called, in registration order; an exception of
\* a listener leaves emit, the listeners after it not being called
RECURSIVE EmitTo(_, _, _, _)
EmitTo(b, ls, e, at) ==
  IF ls = <<>> \/ b.threw THEN b
  ELSE EmitTo(Invoke(b, Head(ls), e, at), Tail(ls), e, at)

Emit(b, e, at) == EmitTo(b, b.listeners, e, at)

\* --------------------------------------------------------------- publish

\* uuidv4(): a value no earlier call returned, here the logical time at
\* which the event is published
EventUuid(b) == <<clears, Len(b.sinceClear) + 1>>

\* { id: uuidv4(), timestamp: new Date().toISOString(), ...event }
Enrich(event, id, ts) == Merge([id |-> id, timestamp |-> ts], event)

\* a bounded append that drops the newest entry instead of the oldest
Push_Mutant(queue, e) ==
  IF Len(queue) + 1 > maxQueueSize THEN queue ELSE Append(queue, e)

\* this.eventQueue.push(e); if (length > maxQueueSize) this.eventQueue.shift()
Push(queue, e) ==
  LET q == Append(queue, e)
  IN IF Len(q) > maxQueueSize THEN Tail(q) ELSE q

\* JSON.stringify(e): fields whose value is undefined are left out
Stringify(e) ==
  <<"json", [k \in {j \in DOMAIN e : j \in StringFields => e[j] # Undefined}
               |-> e[k]]>>

\* JSON.parse(text)
Parse(text) == text[2]

\* the fanout exchange: a message is copied to every queue bound to it
Fanout(cs, msg) == [t \in DOMAIN cs |-> [cs[t] EXCEPT !.queue = Append(@, msg)]]

\* The state a job works on, as one value, so that the calls of one job
\* compose. resolved lists the clarification waits the job has resolved,
\* whose continuations run at the end of the job, and answered the
\* askClarification calls it has resolved; threw tells that a listener threw
\* and the exception is on its way through emit and publish.
World ==
  [eventQueue |-> eventQueue, listeners |-> listeners, consumers |-> consumers,
   sinceClear |-> sinceClear, calls |-> calls, amqp |-> amqp,
   resolved |-> <<>>, answered |-> <<>>, threw |-> FALSE,
   tasks |-> tasks, orch |-> orch, exec |-> exec, taskResults |-> taskResults,
   planCalls |-> planCalls, delegations |-> delegations,
   synthCalls |-> synthCalls]

\* InMemoryEventBus.publish(event)
MemPublish(b, event) ==
  LET at == EventUuid(b)
      e == Enrich(event, at, clock)
      b1 == [b EXCEPT !.eventQueue = Push(@, e), !.sinceClear = Append(@, e)]
  IN Emit(b1, e, at)

\* a publish that hands the message to the channel whatever the connection
RabbitPublish_Mutant(b, event) ==
  LET at == EventUuid(b)
      e == Enrich(event, at, clock)
      b1 == [b EXCEPT !.eventQueue = Push(@, e), !.sinceClear = Append(@, e)]
      b2 == [b1 EXCEPT !.consumers =
                    Fanout(@, [content |-> Stringify(e), at |-> at]),
                       !.amqp.published = [at |-> at, channel |-> channel]]
  IN Emit(b2, e, at)

\* RabbitMQEventBus.publish(event): it has no await, so it runs to its end
\* in the caller's job
RabbitPublish(b, event) ==
  LET at == EventUuid(b)
      e == Enrich(event, at, clock)
      b1 == [b EXCEPT !.eventQueue = Push(@, e), !.sinceClear = Append(@, e)]
      b2 == IF isConnected /\ channel # 0
            THEN [b1 EXCEPT !.consumers =
                    Fanout(@, [content |-> Stringify(e), at |-> at]),
                            !.amqp.published = [at |-> at, channel |-> channel]]
            ELSE b1
  IN Emit(b2, e, at)

\* eventBus.publish(event), eventBus being the backend messageQueue.js chose
Pub(b, event) ==
  IF backend = "rabbitmq" THEN RabbitPublish(b, event) ELSE MemPublish(b, event)

\* the state after a job that left the world as b
SetWorld(b) ==
  /\ eventQueue' = b.eventQueue
  /\ listeners' = b.listeners
  /\ consumers' = b.consumers
  /\ sinceClear' = b.sinceClear
  /\ calls' = b.calls
  /\ amqp' = b.amqp
  /\ tasks' = b.tasks
  /\ orch' = b.orch
  /\ exec' = b.exec
  /\ taskResults' = b.taskResults
  /\ planCalls' = b.planCalls
  /\ delegations' = b.delegations
  /\ synthCalls' = b.synthCalls

\* ------------------------------------------------------- subscribe, in memory

\* history: subscribe call number h was undone (its returned function invoked)
\* for the first time now
MarkUndone(log, h) ==
  IF log[h].undone THEN log
  ELSE [log EXCEPT ![h].undone = TRUE, ![h].until = Now]

\* InMemoryEventBus.subscribe(callback)
MemSubscribe(cb) ==
  /\ backend = "memory"
  /\ Len(handles) < MaxSubscribes
  /\ subscribers' = subscribers \cup {nextSub}
  /\ listeners' = On(listeners, CallbackListener(cb))
  /\ handles' = Append(handles,
                  [kind |-> "memory", sub |-> nextSub, callback |-> cb, tag |-> 0])
  /\ nextSub' = nextSub + 1
  /\ subLog' = Append(subLog,
                 [callback |-> cb, at |-> Now, undone |-> FALSE, until |-> Now,
                  closed |-> FALSE])
  /\ UNCHANGED <<orchVars, amqp>>
  /\ UNCHANGED <<backend, eventQueue, isConnected, channel, consumers,
                 pendingSubscribe, pendingConnects, clock, sinceClear, clears,
                 calls>>

\* the function returned by InMemoryEventBus.subscribe, invoked
MemUnsubscribe(h) ==
  /\ h \in 1..Len(handles)
  /\ handles[h].kind = "memory"
  /\ subscribers' = subscribers \ {handles[h].sub}
  /\ listeners' = Off(listeners, CallbackListener(handles[h].callback))
  /\ subLog' = MarkUndone(subLog, h)
  /\ UNCHANGED <<orchVars, amqp>>
  /\ UNCHANGED <<backend, eventQueue, handles, isConnected, channel, consumers,
                 pendingSubscribe, pendingConnects, nextSub, clock, sinceClear,
                 clears, calls>>

\* what subscribe(callback) returned to its caller: the unsubscribe function
\* from InMemoryEventBus.subscribe, a Promise from RabbitMQEventBus.subscribe,
\* which is an async function
Returned(h) == IF handles[h].kind = "memory" THEN "function" ELSE "promise"

\* The server's ws.on('close') handler of the connection that made subscribe
\* call h: unsubscribe(), unsubscribe being what subscribe returned. Calling
\* the function unsubscribes; calling a Promise is a TypeError and nothing of
\* the bus changes.
WsClose(h) ==
  /\ h \in 1..Len(handles)
  /\ ~subLog[h].closed
  /\ IF Returned(h) = "function"
     THEN /\ subscribers' = subscribers \ {handles[h].sub}
          /\ listeners' = Off(listeners, CallbackListener(handles[h].callback))
          /\ subLog' = [MarkUndone(subLog, h) EXCEPT ![h].closed = TRUE]
     ELSE /\ subLog' = [subLog EXCEPT ![h].closed = TRUE]
          /\ UNCHANGED <<subscribers, listeners>>
  /\ UNCHANGED <<orchVars, amqp>>
  /\ UNCHANGED <<backend, eventQueue, handles, isConnected, channel, consumers,
                 pendingSubscribe, pendingConnects, nextSub, clock, sinceClear,
                 clears, calls>>

\* ------------------------------------------------------ subscribe, RabbitMQ

\* cs with consumer t added / removed
AddConsumer(cs, t, c) == cs @@ (t :> c)
DropConsumers(cs, ts) == [t \in (DOMAIN cs) \ ts |-> cs[t]]

\* a subscribe whose new queue is filled with the retained events
Establish_Mutant(cb) ==
  /\ consumers' = AddConsumer(consumers, nextSub,
                    [callback |-> cb, channel |-> channel,
                     queue |-> [i \in 1..Len(eventQueue) |->
                                  [content |-> Stringify(eventQueue[i]),
                                   at |-> eventQueue[i].id]],
                     since |-> Now, handed |-> 0])
  /\ subscribers' = subscribers \cup {nextSub}
  /\ nextSub' = nextSub + 1

\* RabbitMQEventBus.subscribe(callback) from "try" on, the channel being open:
\* an exclusive queue is declared and bound, a consumer started on it and the
\* subscriber object added
Establish(cb) ==
  /\ consumers' = AddConsumer(consumers, nextSub,
                    [callback |-> cb, channel |-> channel, queue |-> <<>>,
                     since |-> Now, handed |-> 0])
  /\ subscribers' = subscribers \cup {nextSub}
  /\ nextSub' = nextSub + 1

\* RabbitMQEventBus.subscribe(callback), called by a user of the bus
RabbitSubscribe(cb) ==
  /\ backend = "rabbitmq"
  /\ Len(handles) < MaxSubscribes
  /\ IF ~isConnected \/ channel = 0
     THEN /\ pendingSubscribe' = [pendingSubscribe EXCEPT ![cb] = @ + 1]
          /\ handles' = Append(handles,
                          [kind |-> "noop", sub |-> 0, callback |-> cb, tag |-> 0])
          /\ UNCHANGED <<consumers, subscribers, nextSub>>
     ELSE /\ Establish(cb)
          /\ handles' = Append(handles,
                          [kind |-> "rabbitmq", sub |-> nextSub, callback |-> cb,
                           tag |-> nextSub])
          /\ UNCHANGED pendingSubscribe
  /\ subLog' = Append(subLog,
                 [callback |-> cb, at |-> Now, undone |-> FALSE, until |-> Now,
                  closed |-> FALSE])
  /\ UNCHANGED <<orchVars, amqp>>
  /\ UNCHANGED <<backend, eventQueue, listeners, isConnected, channel,
                 pendingConnects, clock, sinceClear, clears, calls>>

\* a retry that subscribes and stays scheduled
RetrySubscribe_Mutant(cb) ==
  /\ pendingSubscribe[cb] > 0
  /\ IF ~isConnected \/ channel = 0
     THEN UNCHANGED <<consumers, subscribers, nextSub>>
     ELSE Establish(cb)
  /\ UNCHANGED <<orchVars, amqp, pendingSubscribe>>
  /\ UNCHANGED <<backend, eventQueue, listeners, handles, isConnected, channel,
                 pendingConnects, clock, sinceClear, clears, calls, subLog>>

\* setTimeout(() => this.subscribe(callback), 1000) fires: subscribe runs
\* again and what it returns is dropped
RetrySubscribe(cb) ==
  /\ pendingSubscribe[cb] > 0
  /\ IF ~isConnected \/ channel = 0
     THEN /\ pendingSubscribe' = [pendingSubscribe EXCEPT ![cb] = (@ - 1) + 1]
          /\ UNCHANGED <<consumers, subscribers, nextSub>>
     ELSE /\ Establish(cb)
          /\ pendingSubscribe' = [pendingSubscribe EXCEPT ![cb] = @ - 1]
  /\ UNCHANGED <<orchVars, amqp>>
  /\ UNCHANGED <<backend, eventQueue, listeners, handles, isConnected, channel,
                 pendingConnects, clock, sinceClear, clears, calls, subLog>>

\* the function returned by RabbitMQEventBus.subscribe, invoked: () => {} when
\* subscribe was called disconnected; otherwise channel.cancel, which throws on
\* a closed channel (caught: the subscriber object stays), then
\* subscribers.delete
RabbitUnsubscribe(h) ==
  /\ h \in 1..Len(handles)
  /\ handles[h].kind \in {"noop", "rabbitmq"}
  /\ IF handles[h].kind = "rabbitmq" /\ isConnected
     THEN /\ consumers' = DropConsumers(consumers,
                            {t \in {handles[h].tag} : t \in DOMAIN consumers})
          /\ subscribers' = subscribers \ {handles[h].sub}
     ELSE UNCHANGED <<consumers, subscribers>>
  /\ subLog' = MarkUndone(subLog, h)
  /\ UNCHANGED <<orchVars, amqp>>
  /\ UNCHANGED <<backend, eventQueue, listeners, handles, isConnected, channel,
                 pendingSubscribe, pendingConnects, nextSub, clock, sinceClear,
                 clears, calls>>

\* whether JSON.parse(msg.content.toString()) returns rather than throws
Parses(content) == content[1] = "json"

\* a message on the exchange that some other publisher sent and that is no
\* JSON text
Garbage == [content |-> <<"garbage">>, at |-> <<0, 0>>]

Settle_Mutant(parsed, threw) ==
  IF parsed THEN (IF threw THEN <<"ack", "nack">> ELSE <<"ack">>) ELSE <<"nack">>

\* the channel calls that settle a message: ack after the callback returned,
\* nack(msg, false, false) from the catch block otherwise
Settle(parsed, threw) ==
  IF parsed /\ ~threw THEN <<"ack">> ELSE <<"nack">>

\* The consume handler: the broker hands consumer t the next message of its
\* queue. The content is parsed and the callback invoked with the event; the
\* message is acked when both returned, and nacked without requeue when the
\* parse or the callback (throws) threw.
Deliver(t, throws) ==
  /\ t \in DOMAIN consumers
  /\ consumers[t].queue # <<>>
  /\ LET msg == Head(consumers[t].queue)
         parsed == Parses(msg.content)
     IN /\ calls' = IF parsed
                    THEN [calls EXCEPT ![consumers[t].callback] =
                            Append(@, [at |-> msg.at, event |-> Parse(msg.content),
                                       seen |-> Seen(tasks, Parse(msg.content))])]
                    ELSE calls
        /\ amqp' = [amqp EXCEPT !.settled = @ \cup
                      {[tag |-> t, n |-> consumers[t].handed + 1,
                        parsed |-> parsed, threw |-> parsed /\ throws,
                        settle |-> Settle(parsed, parsed /\ throws)]}]
  /\ consumers' = [consumers EXCEPT ![t].queue = Tail(@), ![t].handed = @ + 1]
  /\ UNCHANGED orchVars
  /\ UNCHANGED <<backend, eventQueue, subscribers, listeners, handles,
                 isConnected, channel, pendingSubscribe, pendingConnects,
                 nextSub, clock, sinceClear, clears, subLog>>

\* another publisher sends a message that is no JSON text to the exchange
ForeignPublish ==
  /\ backend = "rabbitmq"
  /\ isConnected
  /\ DOMAIN consumers # {}
  /\ consumers' = Fanout(consumers, Garbage)
  /\ UNCHANGED <<orchVars, amqp>>
  /\ UNCHANGED <<backend, eventQueue, subscribers, listeners, handles,
                 isConnected, channel, pendingSubscribe, pendingConnects,
                 nextSub, clock, sinceClear, clears, calls, subLog>>

\* ------------------------------------------------------ connection, RabbitMQ

\* RabbitMQEventBus.connect() succeeds: a new connection and channel
ConnectOk ==
  /\ backend = "rabbitmq"
  /\ pendingConnects > 0
  /\ channel < MaxConnects
  /\ pendingConnects' = pendingConnects - 1
  /\ channel' = channel + 1
  /\ isConnected' = TRUE
  /\ amqp' = [amqp EXCEPT !.connects = @ + 1]
  /\ UNCHANGED orchVars
  /\ UNCHANGED <<backend, eventQueue, subscribers, listeners, handles, consumers,
                 pendingSubscribe, nextSub, clock, sinceClear, clears, calls,
                 subLog>>

\* a failed connect() that schedules no further attempt
ConnectFail_Mutant ==
  /\ backend = "rabbitmq"
  /\ pendingConnects > 0
  /\ amqp.connects < MaxAttempts
  /\ isConnected' = FALSE
  /\ pendingConnects' = pendingConnects - 1
  /\ amqp' = [amqp EXCEPT !.connects = @ + 1]
  /\ UNCHANGED orchVars
  /\ UNCHANGED <<backend, eventQueue, subscribers, listeners, handles, channel,
                 consumers, pendingSubscribe, nextSub, clock, sinceClear, clears,
                 calls, subLog>>

\* RabbitMQEventBus.connect() fails: the catch branch schedules another attempt
ConnectFail ==
  /\ backend = "rabbitmq"
  /\ pendingConnects > 0
  /\ amqp.connects < MaxAttempts
  /\ isConnected' = FALSE
  /\ pendingConnects' = (pendingConnects - 1) + 1
  /\ amqp' = [amqp EXCEPT !.connects = @ + 1]
  /\ UNCHANGED orchVars
  /\ UNCHANGED <<backend, eventQueue, subscribers, listeners, handles, channel,
                 consumers, pendingSubscribe, nextSub, clock, sinceClear, clears,
                 calls, subLog>>

\* the connection's 'close' event: the broker has dropped the connection's
\* exclusive queues and consumers; a reconnect is scheduled
ConnectionClosed ==
  /\ backend = "rabbitmq"
  /\ isConnected
  /\ isConnected' = FALSE
  /\ pendingConnects' = pendingConnects + 1
  /\ consumers' = DropConsumers(consumers,
                    {t \in DOMAIN consumers : consumers[t].channel = channel})
  /\ UNCHANGED <<orchVars, amqp>>
  /\ UNCHANGED <<backend, eventQueue, subscribers, listeners, handles, channel,
                 pendingSubscribe, nextSub, clock, sinceClear, clears, calls,
                 subLog>>

\* RabbitMQEventBus.close(). With an open channel, channel.close() and
\* connection.close() succeed and the connection emits 'close', whose handler,
\* registered by connect(), runs as for any other close; then isConnected is
\* set to false. With no channel yet there is nothing to close. With a
\* channel that is closed already channel.close() throws, which is caught and
\* logged.
Close ==
  /\ backend = "rabbitmq"
  /\ amqp.closes = 0
  /\ amqp' = [amqp EXCEPT !.closes = @ + 1]
  /\ IF isConnected
     THEN /\ isConnected' = FALSE
          /\ pendingConnects' = pendingConnects + 1
          /\ consumers' = DropConsumers(consumers,
                            {t \in DOMAIN consumers : consumers[t].channel = channel})
     ELSE /\ isConnected' = FALSE
          /\ UNCHANGED <<pendingConnects, consumers>>
  /\ UNCHANGED orchVars
  /\ UNCHANGED <<backend, eventQueue, subscribers, listeners, handles, channel,
                 pendingSubscribe, nextSub, clock, sinceClear, clears, calls,
                 subLog>>

\* ------------------------------------------------------------ Agent.execute

\* no Agent.execute call is awaited
IdleExec == [pc |-> "idle"]

\* what the Completion Service does with a request: it throws, or returns a
\* message
Thrown(msg) == [kind |-> "throw", message |-> msg]
Message(content) == [kind |-> "message", content |-> content]

\* error.message of a failure of the Completion Service
ServiceDown == <<"completion service unavailable">>

\* a message of the Completion Service that asks for tool invocations
ToolCalls(toolCalls) ==
  [kind |-> "message", content |-> <<>>, tool_calls |-> toolCalls]

\* the task argument of Agent.execute: a string, an object with a description,
\* or undefined
StringTask(text) == [kind |-> "string", text |-> text]
ObjectTask(description) == [kind |-> "object", description |-> description]
UndefinedTask == [kind |-> "undefined"]

\* task.description || task
TaskText(task) == IF task.kind = "object" THEN task.description ELSE task.text

\* error.message of reading a property of undefined
TypeError == <<"Cannot read properties of undefined (reading 'description')">>

\* Agent.execute(task, context) up to "await this.client.chat.completions
\* .create": agent_started and agent_thinking are published. Reading
\* task.description of an undefined task throws before the try block: the
\* promise execute returned is rejected.
ExecBegin(w, o, agent, task) ==
  IF task.kind = "undefined"
  THEN [w EXCEPT !.exec[o] = [pc |-> "rejected", agent |-> agent, error |-> TypeError]]
  ELSE LET w1 == Pub(w, [type |-> "agent_started", agentId |-> agent,
                         agentName |-> AgentName(agent), task |-> TaskText(task)])
           w2 == Pub(w1, [type |-> "agent_thinking", agentId |-> agent,
                          agentName |-> AgentName(agent),
                          availableTools |-> Len(tools[agent])])
       IN [w2 EXCEPT !.exec[o] = [pc |-> "completion", agent |-> agent]]

\* Agent.execute's success: agent_completed is published and
\* {success: true, result, agentId, agentName} returned
ExecSucceed(w, o, content) ==
  LET agent == w.exec[o].agent
      w1 == Pub(w, [type |-> "agent_completed", agentId |-> agent,
                    agentName |-> AgentName(agent), result |-> content])
  IN [w1 EXCEPT !.exec[o] =
        [pc |-> "returned",
         result |-> [success |-> TRUE, result |-> content, agentId |-> agent,
                     agentName |-> AgentName(agent)]]]

\* Agent.execute's catch: agent_error is published and
\* {success: false, error, agentId, agentName} returned
ExecFail(w, o, msg) ==
  LET agent == w.exec[o].agent
      w1 == Pub(w, [type |-> "agent_error", agentId |-> agent,
                    agentName |-> AgentName(agent), error |-> msg])
  IN [w1 EXCEPT !.exec[o] =
        [pc |-> "returned",
         result |-> [success |-> FALSE, error |-> msg, agentId |-> agent,
                     agentName |-> AgentName(agent)]]]

\* ------------------------------------------------------------ JSON texts

\* A text is a sequence of tokens: words, the braces, and the body of a JSON
\* object (its fields).
Tok(word) == [t |-> word]
Obj(fields) == [t |-> "object", v |-> fields]

\* the text of a JSON object with these fields
Json(fields) == <<Tok("{"), Obj(fields), Tok("}")>>

\* the position of the first entry of s equal to x, 0 when there is none
FirstIndexOf(s, x) ==
  LET hits == {i \in 1..Len(s) : s[i] = x}
  IN IF hits = {} THEN 0 ELSE CHOOSE i \in hits : \A j \in hits : i <= j

\* text.match(/\{[\s\S]*\}/): from the first "{" to the last "}", <<>> (null)
\* when no "}" follows a "{"
JsonMatch(text) ==
  LET i == FirstIndexOf(text, Tok("{"))
      j == LastIndexOf(text, Tok("}"))
  IN IF i = 0 \/ j < i THEN <<>> ELSE SubSeq(text, i, j)

\* whether JSON.parse(m) returns rather than throws, for a text m that holds
\* an object or is malformed
JsonParses(m) == Len(m) = 3 /\ m[1] = Tok("{") /\ m[2].t = "object" /\ m[3] = Tok("}")

\* --------------------------------------------------- Agent.execute, tools

\* a tool invocation of a completion: toolCall.function.name and .arguments
Call(name, arguments) == [name |-> name, arguments |-> arguments]

\* error.message of JSON.parse
SyntaxError == <<"Unexpected end of JSON input">>

\* The loop over response.tool_calls from the first of toolCalls to its next
\* await: the callTool of a call whose tool one of the agent's MCP servers
\* offers, or the final completion after the last call.
RECURSIVE ExecToolLoop(_, _, _)
ExecToolLoop(w, o, toolCalls) ==
  LET agent == w.exec[o].agent
  IN IF toolCalls = <<>>
     THEN [w EXCEPT !.exec[o] = [pc |-> "final", agent |-> agent]]
     ELSE IF ~JsonParses(Head(toolCalls).arguments)
          THEN ExecFail(w, o, SyntaxError)
          ELSE IF \E i \in 1..Len(tools[agent]) : tools[agent][i] = Head(toolCalls).name
               THEN [w EXCEPT !.exec[o] = [pc |-> "tool", agent |-> agent,
                                           calls |-> toolCalls]]
               ELSE ExecToolLoop(w, o, Tail(toolCalls))

\* Agent.execute after the first completion settled
ExecOnCompletion(w, o, out) ==
  IF out.kind = "throw" THEN ExecFail(w, o, out.message)
  ELSE IF "tool_calls" \in DOMAIN out
       THEN ExecToolLoop(
              Pub(w, [type |-> "agent_tool_calls", agentId |-> w.exec[o].agent,
                      agentName |-> AgentName(w.exec[o].agent),
                      toolCalls |-> [i \in 1..Len(out.tool_calls) |->
                                       out.tool_calls[i].name]]),
              o, out.tool_calls)
       ELSE ExecSucceed(w, o, out.content)

\* Agent.execute after the callTool it awaited settled
ExecOnTool(w, o, out) ==
  IF out.kind = "throw" THEN ExecFail(w, o, out.message)
  ELSE ExecToolLoop(w, o, Tail(w.exec[o].calls))

\* Agent.execute after the final completion settled
ExecOnFinal(w, o, out) ==
  IF out.kind = "throw" THEN ExecFail(w, o, out.message)
  ELSE ExecSucceed(w, o, out.content)

\* ------------------------------------------------------- planning responses

\* a fallback plan that loses the raw text
EmptyPlan_Mutant(raw) == [plan |-> <<>>, clarifications |-> <<>>, analysis |-> <<>>]

\* the plan orchestrateAsync falls back to
EmptyPlan(raw) == [plan |-> <<>>, clarifications |-> <<>>, analysis |-> raw]

\* orchestrateAsync's plan parsing (the inner try)
ParsePlan(raw) ==
  LET m == JsonMatch(raw)
  IN IF m # <<>> /\ JsonParses(m) THEN m[2].v ELSE EmptyPlan(raw)

\* plan.plan || [], plan.clarifications || []
StepsOf(plan) == IF "plan" \in DOMAIN plan THEN plan.plan ELSE <<>>
ClarificationsOf(plan) ==
  IF "clarifications" \in DOMAIN plan THEN plan.clarifications ELSE <<>>
AnalysisOf(plan) == IF "analysis" \in DOMAIN plan THEN plan.analysis ELSE <<>>

\* a plan step; a dependency id "code_step" is the pair <<"code", "step">>
Step(agentId, task, deps) == [agentId |-> agentId, task |-> task, dependencies |-> deps]

\* planTask.task as the task argument of agent.execute
StepTask(s) == IF "task" \in DOMAIN s THEN StringTask(s.task) ELSE UndefinedTask

\* `${userRequest}\n\nClarifications: ${answer}`
Clarified(request, answer) == request \o <<"Clarifications: ", answer>>

\* the plans the Completion Service answers with
PlanAsk ==
  [analysis |-> <<Tok("unclear")>>, plan |-> <<>>, clarifications |-> <<"which one?">>]
PlanChain ==
  [analysis |-> <<Tok("two steps")>>,
   plan |-> <<Step("code", "T1", <<>>), Step("design", "T2", << <<"code", "step">> >>)>>,
   clarifications |-> <<>>]
PlanBoth ==
  [analysis |-> <<Tok("unclear")>>,
   plan |-> <<Step("code", "T1", <<>>)>>,
   clarifications |-> <<"which one?">>]
PlanTwice ==
  [analysis |-> <<Tok("two steps, one agent")>>,
   plan |-> <<Step("code", "T1", <<>>), Step("code", "T2", <<>>)>>,
   clarifications |-> <<>>]
PlanSolo ==
  [analysis |-> <<Tok("one step")>>,
   plan |-> <<Step("code", "T1", <<>>)>>,
   clarifications |-> <<>>]
PlanNamesKey ==
  [analysis |-> <<Tok("builds on code_0")>>,
   plan |-> <<Step("design", "T2", << <<"code", "0">> >>)>>,
   clarifications |-> <<>>]
PlanMissing ==
  [analysis |-> <<Tok("needs a tester")>>,
   plan |-> <<Step("tester", "T0", <<>>), Step("code", "T1", <<>>)>>,
   clarifications |-> <<>>]

\* the texts the Completion Service answers a planning request with
Responses ==
  { <<Tok("sorry")>>,
    <<Tok("{"), Tok("oops"), Tok("}")>>,
    <<Tok("here:")>> \o Json(PlanAsk),
    <<Tok("here:")>> \o Json(PlanChain),
    Json(PlanMissing) }

\* the original requests of the tasks, and the answers callers give
RequestOf(t) == <<"request of " , t>>
Answers == {"blue"}

\* ------------------------------------------------------------ orchestrator

\* a task of the store that was not created yet / a fresh one
NoTask == [status |-> "absent"]
NewTask(request) ==
  [status |-> "pending", request |-> request, result |-> <<>>, error |-> <<>>,
   clarification |-> <<>>]

\* no orchestrateAsync call of the task is running
IdleOrch ==
  [pc |-> "idle", depth |-> 0, request |-> <<>>, plan |-> <<>>,
   analysis |-> <<>>, step |-> 0, results |-> <<>>, thrown |-> <<>>]

\* Map.set(key, value)
MapSet(m, k, v) == [x \in (DOMAIN m) \cup {k} |-> IF x = k THEN v ELSE m[x]]

\* planTask.agentId + '_' + Date.now()
ResultKey(agentId, now) == <<agentId, ToString(now)>>

\* the dependencyResults of a step: the entries of taskResults that its
\* dependency ids name
DependencyResults(results, step) ==
  LET deps == IF "dependencies" \in DOMAIN step
              THEN {step.dependencies[i] : i \in 1..Len(step.dependencies)}
              ELSE {}
  IN [d \in {x \in deps : x \in DOMAIN results} |-> results[d]]

\* orchestrateAsync(taskId, userRequest) up to its first await: the planning
\* call this.execute({description: userRequest, context})
OrchEnter(w, t, request) ==
  LET w1 == Pub(w, [type |-> "orchestrator_started", taskId |-> t,
                    request |-> request])
      w2 == ExecBegin(w1, t, Orchestrator, ObjectTask(request))
  IN [w2 EXCEPT !.orch[t].pc = "planning",
                !.orch[t].request = request,
                !.planCalls[t] = Append(@, request)]

\* a catch block that puts the task back to pending
OrchCatch_Resets(w, t, msg) ==
  Pub([w EXCEPT !.tasks[t].status = "pending", !.tasks[t].error = msg],
      [type |-> "orchestrator_error", taskId |-> t, error |-> msg])

\* a catch block that publishes no orchestrator_error
OrchCatch_Silent(w, t, msg) ==
  [w EXCEPT !.tasks[t].status = "error", !.tasks[t].error = msg]

\* One catch block of orchestrateAsync.
OrchCatch(w, t, msg) ==
  Pub([w EXCEPT !.tasks[t].status = "error", !.tasks[t].error = msg],
      [type |-> "orchestrator_error", taskId |-> t, error |-> msg])

\* An exception in orchestrateAsync: its catch block runs and rethrows; the
\* call was made inside the try of the call of the round before, whose catch
\* block runs in turn, up to the first call.
RECURSIVE OrchUnwind(_, _, _, _)
OrchUnwind(w, t, msg, n) ==
  IF n = 0 THEN w ELSE OrchUnwind(OrchCatch(w, t, msg), t, msg, n - 1)

\* the promise of the first call rejects with the error thrown
OrchThrow(w, t, msg) ==
  [OrchUnwind(w, t, msg, w.orch[t].depth + 1) EXCEPT
     !.orch[t].pc = "rejected", !.orch[t].thrown = msg]

\* a loop body that passes over an unregistered agent in silence
OrchMissing_Mutant(w, t, s) == w

\* the loop body for a step whose agent is not registered: the error event,
\* then continue
OrchMissing(w, t, s) ==
  Pub(w, [type |-> "orchestrator_error", taskId |-> t,
          error |-> <<"Agent ", s.agentId, " not found">>])

\* a delegation loop that announces the step after the one it starts as well
RECURSIVE OrchLoop_Eager(_, _)
OrchLoop_Eager(w, t) ==
  LET f == w.orch[t]
  IN IF f.step > Len(f.plan)
     THEN [w EXCEPT !.orch[t].pc = "synthesizing",
                    !.synthCalls[t] = Append(@, [request |-> f.request,
                                                 results |-> f.results,
                                                 analysis |-> f.analysis])]
     ELSE LET s == f.plan[f.step]
          IN IF s.agentId \notin RegisteredAgents
             THEN OrchLoop_Eager([OrchMissing(w, t, s) EXCEPT !.orch[t].step = @ + 1], t)
             ELSE LET deps == DependencyResults(w.taskResults, s)
                      w0 == Pub(w, [type |-> "orchestrator_delegating",
                                    taskId |-> t, agentId |-> s.agentId,
                                    task |-> Get(s, "task")])
                      w1 == IF f.step < Len(f.plan)
                            THEN Pub(w0, [type |-> "orchestrator_delegating",
                                          taskId |-> t,
                                          agentId |-> f.plan[f.step + 1].agentId,
                                          task |-> Get(f.plan[f.step + 1], "task")])
                            ELSE w0
                      w2 == ExecBegin(w1, t, s.agentId, StepTask(s))
                      w3 == [w2 EXCEPT !.delegations[t] = Append(@,
                                   [step |-> f.step, agentId |-> s.agentId,
                                    task |-> StepTask(s), earlier |-> f.results,
                                    deps |-> s.dependencies,
                                    context |-> [dependencies |-> deps,
                                                 originalRequest |-> f.request]])]
                  IN IF w3.exec[t].pc = "rejected"
                     THEN OrchThrow([w3 EXCEPT !.exec[t] = IdleExec], t,
                                    w3.exec[t].error)
                     ELSE [w3 EXCEPT !.orch[t].pc = "delegated"]

\* The delegation loop from step orch[t].step to its next await: the
\* agent.execute call of a step, or synthesizeResults after the last one.
RECURSIVE OrchLoop(_, _)
OrchLoop(w, t) ==
  LET f == w.orch[t]
  IN IF f.step > Len(f.plan)
     THEN [w EXCEPT !.orch[t].pc = "synthesizing",
                    !.synthCalls[t] = Append(@, [request |-> f.request,
                                                 results |-> f.results,
                                                 analysis |-> f.analysis])]
     ELSE LET s == f.plan[f.step]
          IN IF s.agentId \notin RegisteredAgents
             THEN OrchLoop([OrchMissing(w, t, s) EXCEPT !.orch[t].step = @ + 1], t)
             ELSE LET deps == DependencyResults(w.taskResults, s)
                      w1 == Pub(w, [type |-> "orchestrator_delegating",
                                    taskId |-> t, agentId |-> s.agentId,
                                    task |-> Get(s, "task")])
                      w2 == ExecBegin(w1, t, s.agentId, StepTask(s))
                      w3 == [w2 EXCEPT !.delegations[t] = Append(@,
                                   [step |-> f.step, agentId |-> s.agentId,
                                    task |-> StepTask(s), earlier |-> f.results,
                                    deps |-> s.dependencies,
                                    context |-> [dependencies |-> deps,
                                                 originalRequest |-> f.request]])]
                  IN IF w3.exec[t].pc = "rejected"
                     THEN OrchThrow([w3 EXCEPT !.exec[t] = IdleExec], t,
                                    w3.exec[t].error)
                     ELSE [w3 EXCEPT !.orch[t].pc = "delegated"]

\* a continuation that announces the plan after starting on it
OrchPlanned_Late(w, t, response) ==
  IF ~response.success
  THEN OrchThrow(w, t, <<"Planning failed: ">> \o response.error)
  ELSE LET plan == ParsePlan(response.result)
       IN IF Len(ClarificationsOf(plan)) > 0
          THEN LET w1 == [w EXCEPT
                            !.tasks[t].status = "waiting_for_clarification",
                            !.tasks[t].clarification =
                               [questions |-> plan.clarifications,
                                context |-> [originalRequest |-> w.orch[t].request]]]
                   w2 == Pub(w1, [type |-> "orchestrator_needs_clarification",
                                  taskId |-> t,
                                  clarifications |-> plan.clarifications])
               IN [w2 EXCEPT !.listeners = On(@, WaitListener(t)),
                             !.orch[t].pc = "waiting"]
          ELSE Pub(OrchLoop([w EXCEPT !.orch[t].plan = StepsOf(plan),
                                      !.orch[t].analysis = AnalysisOf(plan),
                                      !.orch[t].step = 1,
                                      !.orch[t].results = <<>>], t),
                   [type |-> "orchestrator_plan_created",
                    taskId |-> t, plan |-> StepsOf(plan),
                    analysis |-> AnalysisOf(plan)])

\* a continuation that asks only when the plan has no steps
OrchPlanned_StepsFirst(w, t, response) ==
  IF ~response.success
  THEN OrchThrow(w, t, <<"Planning failed: ">> \o response.error)
  ELSE LET plan == ParsePlan(response.result)
       IN IF Len(ClarificationsOf(plan)) > 0 /\ Len(StepsOf(plan)) = 0
          THEN LET w1 == [w EXCEPT
                            !.tasks[t].status = "waiting_for_clarification",
                            !.tasks[t].clarification =
                               [questions |-> plan.clarifications,
                                context |-> [originalRequest |-> w.orch[t].request]]]
                   w2 == Pub(w1, [type |-> "orchestrator_needs_clarification",
                                  taskId |-> t,
                                  clarifications |-> plan.clarifications])
               IN [w2 EXCEPT !.listeners = On(@, WaitListener(t)),
                             !.orch[t].pc = "waiting"]
          ELSE LET w1 == Pub(w, [type |-> "orchestrator_plan_created",
                                 taskId |-> t, plan |-> StepsOf(plan),
                                 analysis |-> AnalysisOf(plan)])
               IN OrchLoop([w1 EXCEPT !.orch[t].plan = StepsOf(plan),
                                      !.orch[t].analysis = AnalysisOf(plan),
                                      !.orch[t].step = 1,
                                      !.orch[t].results = <<>>], t)

\* orchestrateAsync after the planning call returned
OrchPlanned(w, t, response) ==
  IF ~response.success
  THEN OrchThrow(w, t, <<"Planning failed: ">> \o response.error)
  ELSE LET plan == ParsePlan(response.result)
       IN IF Len(ClarificationsOf(plan)) > 0
          THEN LET w1 == [w EXCEPT
                            !.tasks[t].status = "waiting_for_clarification",
                            !.tasks[t].clarification =
                               [questions |-> plan.clarifications,
                                context |-> [originalRequest |-> w.orch[t].request]]]
                   w2 == Pub(w1, [type |-> "orchestrator_needs_clarification",
                                  taskId |-> t,
                                  clarifications |-> plan.clarifications])
               IN [w2 EXCEPT !.listeners = On(@, WaitListener(t)),
                             !.orch[t].pc = "waiting"]
          ELSE LET w1 == Pub(w, [type |-> "orchestrator_plan_created",
                                 taskId |-> t, plan |-> StepsOf(plan),
                                 analysis |-> AnalysisOf(plan)])
               IN OrchLoop([w1 EXCEPT !.orch[t].plan = StepsOf(plan),
                                      !.orch[t].analysis = AnalysisOf(plan),
                                      !.orch[t].step = 1,
                                      !.orch[t].results = <<>>], t)

\* a continuation that gives up on a step that failed
OrchStepDone_Aborts(w, t, result) ==
  LET s == w.orch[t].plan[w.orch[t].step]
  IN IF ~result.success
     THEN OrchThrow(w, t, result.error)
     ELSE OrchLoop([w EXCEPT
            !.taskResults = MapSet(@, ResultKey(s.agentId, clock), result),
            !.orch[t].results = Append(@, result),
            !.orch[t].step = @ + 1], t)

\* orchestrateAsync after the agent.execute call of a step returned
OrchStepDone(w, t, result) ==
  LET s == w.orch[t].plan[w.orch[t].step]
  IN OrchLoop([w EXCEPT
       !.taskResults = MapSet(@, ResultKey(s.agentId, clock), result),
       !.orch[t].results = Append(@, result),
       !.orch[t].step = @ + 1], t)

\* the continuation of the Agent.execute call the orchestration of t awaited
OrchOnExecute(w, t) ==
  LET result == w.exec[t].result
      w1 == [w EXCEPT !.exec[t] = IdleExec]
  IN IF w.orch[t].pc = "planning" THEN OrchPlanned(w1, t, result)
     ELSE OrchStepDone(w1, t, result)

\* what the awaiter of owner o's Agent.execute call does in the job in which
\* the call returned: an orchestration continues, a direct caller has the
\* result
Resume(w, o) ==
  IF o \in Tasks /\ w.exec[o].pc = "returned" THEN OrchOnExecute(w, o) ELSE w

\* orchestrateAsync after synthesizeResults: the final result is stored and
\* orchestrator_completed published, or the completion threw
OrchSynthesized(w, t, out) ==
  IF out.kind = "throw" THEN OrchThrow(w, t, out.message)
  ELSE LET f == w.orch[t]
           final == [success |-> TRUE, result |-> out.content,
                     agentResults |-> f.results, analysis |-> f.analysis]
           w1 == [w EXCEPT !.tasks[t].status = "completed",
                           !.tasks[t].result = final]
           w2 == Pub(w1, [type |-> "orchestrator_completed", taskId |-> t,
                          result |-> final])
       IN [w2 EXCEPT !.orch[t].pc = "done"]

\* a resumption that plans the unclarified request again
OrchAnswered_Mutant(w, t, answer) ==
  OrchEnter([w EXCEPT !.tasks[t].status = "running",
                      !.tasks[t].clarification = <<>>,
                      !.orch[t].depth = @ + 1],
            t, w.orch[t].request)

\* a resumption that leaves the answered questions on the task
OrchAnswered_Stale(w, t, answer) ==
  OrchEnter([w EXCEPT !.tasks[t].status = "running",
                      !.orch[t].depth = @ + 1],
            t, Clarified(w.orch[t].request, answer))

\* orchestrateAsync after waitForClarificationAnswer resolved with answer: the
\* recursive call with the clarified request
OrchAnswered(w, t, answer) ==
  OrchEnter([w EXCEPT !.tasks[t].status = "running",
                      !.tasks[t].clarification = <<>>,
                      !.orch[t].depth = @ + 1],
            t, Clarified(w.orch[t].request, answer))

\* the continuations of the waits a job resolved, in the order resolved
RECURSIVE RunResolved(_)
RunResolved(w) ==
  IF w.resolved = <<>> THEN w
  ELSE LET r == Head(w.resolved)
       IN RunResolved(OrchAnswered([w EXCEPT !.resolved = Tail(@)],
                                   r.taskId, r.answer))

\* ------------------------------------------------ orchestrate, synchronous

\* orchestrate(userRequest) has no task: its calls are told apart here by the
\* ids of Tasks, the frame of call c being orch[c] and the store holding no
\* task for it. Its events carry no taskId.

\* orchestrate's catch block: orchestrator_error is published and
\* {success: false, error} returned
SyncCatch(w, c, msg) ==
  LET w1 == Pub(w, [type |-> "orchestrator_error", error |-> msg])
  IN [w1 EXCEPT !.orch[c] =
        Merge(@, [pc |-> "returned",
                  returned |-> [success |-> FALSE, error |-> msg]])]

\* orchestrate(userRequest) up to its first await, the planning call
SyncEnter(w, c, request) ==
  LET w1 == Pub(w, [type |-> "orchestrator_started", request |-> request])
      w2 == ExecBegin(w1, c, Orchestrator, ObjectTask(request))
  IN [w2 EXCEPT !.orch[c].pc = "planning",
                !.orch[c].request = request,
                !.planCalls[c] = Append(@, request)]

\* orchestrate's delegation loop from step orch[c].step to its next await
RECURSIVE SyncLoop(_, _)
SyncLoop(w, c) ==
  LET f == w.orch[c]
  IN IF f.step > Len(f.plan)
     THEN [w EXCEPT !.orch[c].pc = "synthesizing",
                    !.synthCalls[c] = Append(@, [request |-> f.request,
                                                 results |-> f.results,
                                                 analysis |-> f.analysis])]
     ELSE LET s == f.plan[f.step]
          IN IF s.agentId \notin RegisteredAgents
             THEN SyncLoop([Pub(w, [type |-> "orchestrator_error",
                                    error |-> <<"Agent ", s.agentId, " not found">>])
                              EXCEPT !.orch[c].step = @ + 1], c)
             ELSE LET deps == DependencyResults(w.taskResults, s)
                      w1 == Pub(w, [type |-> "orchestrator_delegating",
                                    agentId |-> s.agentId,
                                    task |-> Get(s, "task")])
                      w2 == ExecBegin(w1, c, s.agentId, StepTask(s))
                      w3 == [w2 EXCEPT !.delegations[c] = Append(@,
                                   [step |-> f.step, agentId |-> s.agentId,
                                    task |-> StepTask(s), earlier |-> f.results,
                                    deps |-> s.dependencies,
                                    context |-> [dependencies |-> deps,
                                                 originalRequest |-> f.request]])]
                  IN IF w3.exec[c].pc = "rejected"
                     THEN SyncCatch([w3 EXCEPT !.exec[c] = IdleExec], c,
                                    w3.exec[c].error)
                     ELSE [w3 EXCEPT !.orch[c].pc = "delegated"]

\* this.askClarification(question, context) of the orchestrator, called by
\* call c: agent_question is published, then the handler registered
AskClarification(w, c, question, context) ==
  LET w1 == Pub(w, [type |-> "agent_question", agentId |-> Orchestrator,
                    agentName |-> AgentName(Orchestrator),
                    question |-> question, context |-> context])
  IN [w1 EXCEPT !.listeners = On(@, AskListener(Orchestrator, c)),
                !.orch[c].pc = "waiting"]

\* orchestrate after the planning call returned
SyncPlanned(w, c, response) ==
  IF ~response.success
  THEN SyncCatch(w, c, <<"Planning failed: ">> \o response.error)
  ELSE LET plan == ParsePlan(response.result)
       IN IF Len(ClarificationsOf(plan)) > 0
          THEN AskClarification(
                 Pub(w, [type |-> "orchestrator_needs_clarification",
                         clarifications |-> plan.clarifications]),
                 c, plan.clarifications,
                 [originalRequest |-> w.orch[c].request])
          ELSE LET w1 == Pub(w, [type |-> "orchestrator_plan_created",
                                 plan |-> StepsOf(plan),
                                 analysis |-> AnalysisOf(plan)])
               IN SyncLoop([w1 EXCEPT !.orch[c].plan = StepsOf(plan),
                                      !.orch[c].analysis = AnalysisOf(plan),
                                      !.orch[c].step = 1,
                                      !.orch[c].results = <<>>], c)

\* orchestrate after the agent.execute call of a step returned
SyncStepDone(w, c, result) ==
  LET s == w.orch[c].plan[w.orch[c].step]
  IN SyncLoop([w EXCEPT
       !.taskResults = MapSet(@, ResultKey(s.agentId, clock), result),
       !.orch[c].results = Append(@, result),
       !.orch[c].step = @ + 1], c)

\* the continuation of the Agent.execute call that call c awaited
SyncResume(w, c) ==
  IF w.exec[c].pc # "returned" THEN w
  ELSE LET result == w.exec[c].result
           w1 == [w EXCEPT !.exec[c] = IdleExec]
       IN IF w.orch[c].pc = "planning" THEN SyncPlanned(w1, c, result)
          ELSE SyncStepDone(w1, c, result)

\* orchestrate after synthesizeResults: orchestrator_completed is published
\* and the final result returned, or the completion threw
SyncSynthesized(w, c, out) ==
  IF out.kind = "throw" THEN SyncCatch(w, c, out.message)
  ELSE LET f == w.orch[c]
           final == [success |-> TRUE, result |-> out.content,
                     agentResults |-> f.results, analysis |-> f.analysis]
           w1 == Pub(w, [type |-> "orchestrator_completed", result |-> final])
       IN [w1 EXCEPT !.orch[c] = Merge(@, [pc |-> "returned", returned |-> final])]

\* orchestrate after askClarification resolved with answer: the recursive
\* call, whose return value the call returns
SyncAnswered(w, c, answer) ==
  SyncEnter([w EXCEPT !.orch[c].depth = @ + 1],
            c, Clarified(w.orch[c].request, answer))

\* the continuations of the askClarification calls a job resolved
RECURSIVE RunAnswered(_)
RunAnswered(w) ==
  IF w.answered = <<>> THEN w
  ELSE LET r == Head(w.answered)
       IN RunAnswered(SyncAnswered([w EXCEPT !.answered = Tail(@)],
                                   r.call, r.answer))

\* ------------------------------------------------- publish and clearQueue

\* eventBus.publish(event), called by a user of the bus; the orchestrations
\* whose wait the event resolved continue in the same job
Publish(event) ==
  /\ SetWorld(RunResolved(Pub(World, event)))
  /\ UNCHANGED <<backend, subscribers, handles, isConnected, channel,
                 pendingSubscribe, pendingConnects, nextSub, clock, clears,
                 subLog, tools>>

\* eventBus.clearQueue(); nothing listens to 'queue_cleared'
ClearQueue ==
  /\ clears < MaxClears
  /\ eventQueue' = <<>>
  /\ sinceClear' = <<>>
  /\ clears' = clears + 1
  /\ UNCHANGED <<orchVars, amqp>>
  /\ UNCHANGED <<backend, subscribers, listeners, handles, isConnected, channel,
                 consumers, pendingSubscribe, pendingConnects, nextSub, clock,
                 calls, subLog>>


\* -------------------------------------------------- orchestration actions

\* the task store's create: POST of a new task
CreateTask(t) ==
  /\ tasks[t].status = "absent"
  /\ tasks' = [tasks EXCEPT ![t] = NewTask(RequestOf(t))]
  /\ UNCHANGED <<busVars, tools, orch, exec, taskResults, planCalls,
                 delegations, synthCalls>>

\* a caller answers the clarification of a task of the store: the
\* task_clarification_answer event is published, whatever the task's status
AnswerTask(t, a) ==
  /\ tasks[t].status # "absent"
  /\ Publish([type |-> "task_clarification_answer", taskId |-> t, answer |-> a])

\* the task is set running and orchestrateAsync(taskId, request) called
StartTask(t) ==
  /\ tasks[t].status = "pending"
  /\ orch[t].pc = "idle"
  /\ SetWorld(OrchEnter([World EXCEPT !.tasks[t].status = "running"],
                        t, tasks[t].request))
  /\ UNCHANGED <<backend, subscribers, handles, isConnected, channel,
                 pendingSubscribe, pendingConnects, nextSub, clock, clears,
                 subLog, tools>>

\* agent.initializeMCPServers(mcpConfigs) with the one server of the agent's
\* configuration: the server connected and its tools were added, or the
\* connection failed
InitializeMCPServers(agent, connected) ==
  /\ tools[agent] = <<>>
  /\ McpTools(agent) # <<>>
  /\ tools' = [tools EXCEPT ![agent] = IF connected THEN McpTools(agent) ELSE @]
  /\ SetWorld(Pub(World,
       IF connected
       THEN [type |-> "agent_mcp_connected", agentId |-> agent,
             agentName |-> AgentName(agent), mcpServer |-> "filesystem",
             toolsCount |-> Len(McpTools(agent))]
       ELSE [type |-> "agent_mcp_error", agentId |-> agent,
             agentName |-> AgentName(agent), error |-> <<"spawn failed">>]))
  /\ UNCHANGED <<backend, subscribers, handles, isConnected, channel,
                 pendingSubscribe, pendingConnects, nextSub, clock, clears,
                 subLog>>

\* agent.execute(task) called directly
Execute(agent, task) ==
  /\ exec["caller"].pc \in {"idle", "returned", "rejected"}
  /\ SetWorld(ExecBegin(World, "caller", agent, task))
  /\ UNCHANGED <<backend, subscribers, handles, isConnected, channel,
                 pendingSubscribe, pendingConnects, nextSub, clock, clears,
                 subLog, tools>>

\* the Completion Service settles the first completion of owner o's
\* Agent.execute call; execute runs on to its next await or returns, and an
\* orchestration that awaited it runs on to its next await
CompletionReturns(o, out) ==
  /\ exec[o].pc = "completion"
  /\ SetWorld(Resume(ExecOnCompletion(World, o, out), o))
  /\ UNCHANGED <<backend, subscribers, handles, isConnected, channel,
                 pendingSubscribe, pendingConnects, nextSub, clock, clears,
                 subLog, tools>>

\* the Tool Runner settles the callTool owner o's Agent.execute call awaits
ToolReturns(o, out) ==
  /\ exec[o].pc = "tool"
  /\ SetWorld(Resume(ExecOnTool(World, o, out), o))
  /\ UNCHANGED <<backend, subscribers, handles, isConnected, channel,
                 pendingSubscribe, pendingConnects, nextSub, clock, clears,
                 subLog, tools>>

\* the Completion Service settles the final completion of owner o's
\* Agent.execute call
FinalReturns(o, out) ==
  /\ exec[o].pc = "final"
  /\ SetWorld(Resume(ExecOnFinal(World, o, out), o))
  /\ UNCHANGED <<backend, subscribers, handles, isConnected, channel,
                 pendingSubscribe, pendingConnects, nextSub, clock, clears,
                 subLog, tools>>

\* the Completion Service settles the completion synthesizeResults awaits
SynthesisReturns(t, out) ==
  /\ orch[t].pc = "synthesizing"
  /\ SetWorld(OrchSynthesized(World, t, out))
  /\ UNCHANGED <<backend, subscribers, handles, isConnected, channel,
                 pendingSubscribe, pendingConnects, nextSub, clock, clears,
                 subLog, tools>>

\* POST /api/execute: orchestrator.orchestrate(request) is called, here as
\* call c
Orchestrate(c) ==
  /\ orch[c].pc = "idle"
  /\ SetWorld(SyncEnter(World, c, RequestOf(c)))
  /\ UNCHANGED <<backend, subscribers, handles, isConnected, channel,
                 pendingSubscribe, pendingConnects, nextSub, clock, clears,
                 subLog, tools>>

\* the Completion Service settles the completion of the Agent.execute call
\* that call c of orchestrate awaits
SyncCompletionReturns(c, out) ==
  /\ exec[c].pc = "completion"
  /\ SetWorld(SyncResume(ExecOnCompletion(World, c, out), c))
  /\ UNCHANGED <<backend, subscribers, handles, isConnected, channel,
                 pendingSubscribe, pendingConnects, nextSub, clock, clears,
                 subLog, tools>>

\* the Completion Service settles the completion synthesizeResults awaits in
\* call c of orchestrate
SyncSynthesisReturns(c, out) ==
  /\ orch[c].pc = "synthesizing"
  /\ SetWorld(SyncSynthesized(World, c, out))
  /\ UNCHANGED <<backend, subscribers, handles, isConnected, channel,
                 pendingSubscribe, pendingConnects, nextSub, clock, clears,
                 subLog, tools>>

\* POST /api/agent/answer with {agentId, answer}: agent_answer is published;
\* the calls whose askClarification it resolved continue in the same job
AgentAnswer(agentId, a) ==
  /\ SetWorld(RunAnswered(RunResolved(
       Pub(World, [type |-> "agent_answer", agentId |-> agentId, answer |-> a]))))
  /\ UNCHANGED <<backend, subscribers, handles, isConnected, channel,
                 pendingSubscribe, pendingConnects, nextSub, clock, clears,
                 subLog, tools>>

\* a millisecond passes
Tick ==
  /\ clock < MaxClock
  /\ clock' = clock + 1
  /\ UNCHANGED <<backend, eventQueue, subscribers, listeners, handles,
                 isConnected, channel, consumers, pendingSubscribe,
                 pendingConnects, nextSub, sinceClear, clears, calls, subLog,
                 orchVars, amqp>>

\* how many task_clarification_answer events were published
AnswersPublished ==
  Cardinality({i \in 1..Len(sinceClear) :
                 Get(sinceClear[i], "type") = "task_clarification_answer"})

\* how many tasks were started
Started == Cardinality({t \in Tasks : Len(planCalls[t]) > 0})

\* what the Completion Service does with the request of an Agent.execute call
\* of task t's orchestration, a planning request being answered with one of
\* the texts of responses
Completions(t, responses) ==
  IF orch[t].pc = "planning"
  THEN {Thrown(ServiceDown)} \cup {Message(r) : r \in responses}
  ELSE {Thrown(ServiceDown), Message(<<Tok("done")>>)}

\* the planning responses that ask for a clarification or hold no plan
Unclear == {<<Tok("sorry")>>, <<Tok("here:")>> \o Json(PlanAsk)}

\* ---------------------------------------------------------- specifications

\* the events orchestrator.registerAgent published when the server started
ServerEvents ==
  LET agents == <<"code", "design", "research">>
  IN [i \in 1..3 |->
        Enrich([type |-> "orchestrator_agent_registered", agentId |-> agents[i],
                agentName |-> AgentName(agents[i])], <<0, i>>, 0)]

\* The state after construction, the events given having been published. The
\* module of the durable bus calls connect() when it is loaded, so one
\* connection attempt is pending there.
InitWith(events) ==
  /\ backend \in {"memory", "rabbitmq"}
  /\ eventQueue = events
  /\ subscribers = {}
  /\ listeners = <<>>
  /\ handles = <<>>
  /\ isConnected = FALSE
  /\ channel = 0
  /\ consumers = <<>>
  /\ pendingSubscribe = [cb \in Callbacks |-> 0]
  /\ pendingConnects = (IF backend = "rabbitmq" THEN 1 ELSE 0)
  /\ nextSub = 1
  /\ clock = 0
  /\ sinceClear = events
  /\ clears = 0
  /\ calls = [cb \in Callbacks \cup Repliers \cup Throwers |-> <<>>]
  /\ subLog = <<>>
  /\ amqp = [published |-> [at |-> <<0, 0>>, channel |-> 0], settled |-> {},
             connects |-> 0, closes |-> 0]
  /\ tools = [a \in RegisteredAgents \cup {Orchestrator} |-> <<>>]
  /\ tasks = [t \in Tasks |-> NoTask]
  /\ orch = [t \in Tasks |-> IdleOrch]
  /\ exec = [o \in Owners |-> IdleExec]
  /\ taskResults = <<>>
  /\ planCalls = [t \in Tasks |-> <<>>]
  /\ delegations = [t \in Tasks |-> <<>>]
  /\ synthCalls = [t \in Tasks |-> <<>>]

\* the bus after its construction
BusInit == InitWith(<<>>)

\* The bus under any sequence of publish, subscribe and unsubscribe calls,
\* deliveries and connection changes.
BusNext ==
  \/ \E ev \in PartialEvents : Len(sinceClear) < MaxPublishes /\ Publish(ev)
  \/ \E cb \in Callbacks : MemSubscribe(cb)
  \/ \E h \in 1..MaxSubscribes : MemUnsubscribe(h)
  \/ \E cb \in Callbacks : RabbitSubscribe(cb)
  \/ \E h \in 1..MaxSubscribes : RabbitUnsubscribe(h)
  \/ \E cb \in Callbacks : RetrySubscribe(cb)
  \/ \E t \in DOMAIN consumers : Deliver(t, FALSE)
  \/ ConnectOk
  \/ ConnectionClosed

SpecBus == BusInit /\ [][BusNext]_vars

\* The RabbitMQ bus with callbacks that may throw and with messages of other
\* publishers on the exchange.
DurableInit ==
  /\ InitWith(<<>>)
  /\ backend = "rabbitmq"

DurableNext ==
  \/ \E ev \in PartialEvents : Len(sinceClear) < MaxMessages /\ Publish(ev)
  \/ /\ \A x \in amqp.settled : x.parsed
     /\ \A t \in DOMAIN consumers :
          \A m \in Range(consumers[t].queue) : Parses(m.content)
     /\ ForeignPublish
  \/ \E cb \in Callbacks :
       isConnected /\ Len(handles) < MaxConsumers /\ RabbitSubscribe(cb)
  \/ \E t \in DOMAIN consumers : \E throws \in BOOLEAN : Deliver(t, throws)
  \/ ConnectOk
  \/ ConnectionClosed

SpecDurable == DurableInit /\ [][DurableNext]_vars

\* The RabbitMQ bus with a close() call at any time.
CloseNext ==
  \/ \E ev \in PartialEvents : Len(sinceClear) < MaxMessages /\ Publish(ev)
  \/ \E cb \in Callbacks :
       isConnected /\ Len(handles) < MaxConsumers /\ RabbitSubscribe(cb)
  \/ \E t \in DOMAIN consumers : Deliver(t, FALSE)
  \/ ConnectOk
  \/ ConnectionClosed
  \/ Close

SpecClose == DurableInit /\ [][CloseNext]_vars

\* The RabbitMQ bus whose connect attempts may fail. The timer of a scheduled
\* connect() fires and the attempt ends, in success or in failure: weak
\* fairness of the two outcomes together.
ReconnectNext ==
  \/ \E ev \in PartialEvents : Len(sinceClear) < MaxMessages /\ Publish(ev)
  \/ \E cb \in Callbacks : Len(handles) < MaxConsumers /\ RabbitSubscribe(cb)
  \/ \E cb \in Callbacks : RetrySubscribe(cb)
  \/ ConnectOk
  \/ ConnectFail
  \/ ConnectionClosed

SpecReconnect ==
  DurableInit /\ [][ReconnectNext]_vars /\ WF_vars(ConnectOk \/ ConnectFail)

\* partial events whose caller filled in an id and a timestamp, the id being
\* the one publish generated for the first event
StampedEvents == {[type |-> "ping", id |-> <<0, 1>>, timestamp |-> 7]}

\* Both buses under publish calls whose event may carry an id and a timestamp.
IdsNext ==
  \/ \E ev \in PartialEvents \cup StampedEvents :
       Len(sinceClear) < MaxMessages /\ Publish(ev)
  \/ \E cb \in Callbacks : Len(handles) < MaxConsumers /\ MemSubscribe(cb)
  \/ \E cb \in Callbacks :
       isConnected /\ Len(handles) < MaxConsumers /\ RabbitSubscribe(cb)
  \/ \E t \in DOMAIN consumers : Deliver(t, FALSE)
  \/ ConnectOk

SpecIds == BusInit /\ [][IdsNext]_vars

\* Both buses under the server's websocket connections, each subscribing when
\* it opens and calling what subscribe returned when it closes, the broker
\* staying connected.
WsNext ==
  \/ \E ev \in PartialEvents : Len(sinceClear) < MaxMessages /\ Publish(ev)
  \/ \E cb \in Callbacks : Len(handles) < MaxConsumers + 1 /\ MemSubscribe(cb)
  \/ \E cb \in Callbacks :
       isConnected /\ Len(handles) < MaxConsumers + 1 /\ RabbitSubscribe(cb)
  \/ \E h \in 1..(MaxConsumers + 1) : WsClose(h)
  \/ \E t \in DOMAIN consumers : Deliver(t, FALSE)
  \/ ConnectOk

SpecWs == BusInit /\ [][WsNext]_vars

\* Both buses with few publish and subscribe calls, every callback returning.
LiveNext ==
  \/ \E ev \in PartialEvents : Len(sinceClear) < MaxMessages /\ Publish(ev)
  \/ \E cb \in Callbacks : Len(handles) < MaxConsumers /\ MemSubscribe(cb)
  \/ \E h \in 1..MaxConsumers : MemUnsubscribe(h)
  \/ \E cb \in Callbacks : Len(handles) < MaxConsumers /\ RabbitSubscribe(cb)
  \/ \E h \in 1..MaxConsumers : RabbitUnsubscribe(h)
  \/ \E cb \in Callbacks : RetrySubscribe(cb)
  \/ \E t \in DOMAIN consumers : Deliver(t, FALSE)
  \/ ConnectOk
  \/ ConnectionClosed

SpecLive == BusInit /\ [][LiveNext]_vars

\* The in-memory bus with subscribers whose callback returns or throws.
ThrowNext ==
  \/ \E ev \in PartialEvents : Len(sinceClear) < MaxMessages /\ Publish(ev)
  \/ \E cb \in Callbacks \cup Throwers :
       Len(handles) < MaxConsumers + 1 /\ MemSubscribe(cb)

\* the in-memory bus after its construction
MemInit ==
  /\ InitWith(<<>>)
  /\ backend = "memory"

SpecThrow == MemInit /\ [][ThrowNext]_vars

\* The retention buffer under publish and clearQueue alone, long enough to
\* overflow it.
RetentionNext ==
  \/ \E ev \in PartialEvents : Len(sinceClear) < MaxRun /\ Publish(ev)
  \/ ClearQueue
  \/ sinceClear = <<>> /\ clears = 0 /\ ConnectOk

SpecRetention == BusInit /\ [][RetentionNext]_vars

\* The server after its start, over the in-memory bus.
OrchInit ==
  /\ InitWith(ServerEvents)
  /\ backend = "memory"

\* Tasks are created and answered, and one of them is started, planned,
\* delegated and synthesized, under every planning response, while the
\* clock advances.
OrchNext ==
  \/ \E t \in Tasks : CreateTask(t)
  \/ \E t \in Tasks : Started = 0 /\ StartTask(t)
  \/ \E t \in Tasks : \E out \in Completions(t, Responses) :
       /\ orch[t].pc = "planning" => Len(planCalls[t]) <= MaxRounds
       /\ CompletionReturns(t, out)
  \/ \E t \in Tasks : \E out \in {Thrown(ServiceDown), Message(<<Tok("summary")>>)} :
       SynthesisReturns(t, out)
  \/ \E t \in Tasks : \E a \in Answers :
       AnswersPublished < MaxAnswers /\ AnswerTask(t, a)
  \/ Tick

SpecOrch == OrchInit /\ [][OrchNext]_vars

\* All tasks run concurrently, under the planning responses that ask for a
\* clarification or hold no plan.
WaitNext ==
  \/ \E t \in Tasks : CreateTask(t)
  \/ \E t \in Tasks : Len(planCalls[t]) = 0 /\ StartTask(t)
  \/ \E t \in Tasks : \E out \in Completions(t, Unclear) :
       /\ orch[t].pc = "planning" => Len(planCalls[t]) <= MaxRounds
       /\ CompletionReturns(t, out)
  \/ \E t \in Tasks : SynthesisReturns(t, Message(<<Tok("summary")>>))
  \/ \E t \in Tasks : \E a \in Answers :
       AnswersPublished < MaxAnswers /\ AnswerTask(t, a)

SpecWait == OrchInit /\ [][WaitNext]_vars

\* One task through one planning round more than SpecOrch allows, so that an
\* orchestration completes or fails after a clarification round.
RoundsNext ==
  \/ \E t \in Tasks : CreateTask(t)
  \/ \E t \in Tasks : Started = 0 /\ StartTask(t)
  \/ \E t \in Tasks : \E out \in Completions(t, Responses) :
       /\ orch[t].pc = "planning" => Len(planCalls[t]) <= MaxRounds + 1
       /\ CompletionReturns(t, out)
  \/ \E t \in Tasks : \E out \in {Thrown(ServiceDown), Message(<<Tok("summary")>>)} :
       SynthesisReturns(t, out)
  \/ \E t \in Tasks : \E a \in Answers :
       AnswersPublished < MaxAnswers + 1 /\ AnswerTask(t, a)

SpecRounds == OrchInit /\ [][RoundsNext]_vars

\* the planning responses whose plan asks a question and lists a step as
\* well, or lists steps only
AskOrSteps == {Json(PlanBoth), <<Tok("here:")>> \o Json(PlanChain)}

\* One task whose planning rounds are answered with such plans.
AskNext ==
  \/ \E t \in Tasks : CreateTask(t)
  \/ \E t \in Tasks : Started = 0 /\ StartTask(t)
  \/ \E t \in Tasks : \E out \in Completions(t, AskOrSteps) :
       /\ orch[t].pc = "planning" => Len(planCalls[t]) <= MaxRounds + 1
       /\ CompletionReturns(t, out)
  \/ \E t \in Tasks : SynthesisReturns(t, Message(<<Tok("summary")>>))
  \/ \E t \in Tasks : \E a \in Answers :
       AnswersPublished < MaxAnswers /\ AnswerTask(t, a)

SpecAsk == OrchInit /\ [][AskNext]_vars

\* The server over either bus, with subscribers that watch one task being
\* planned, asked about, answered, completed or failed.
ObserveNext ==
  \/ ConnectOk
  \/ \E cb \in Callbacks : Len(handles) < MaxConsumers /\ MemSubscribe(cb)
  \/ \E cb \in Callbacks :
       isConnected /\ Len(handles) < MaxConsumers /\ RabbitSubscribe(cb)
  \/ \E t \in DOMAIN consumers : Deliver(t, FALSE)
  \/ \E t \in Tasks : Started = 0 /\ CreateTask(t)
  \/ \E t \in Tasks : Started = 0 /\ StartTask(t)
  \/ \E t \in Tasks : \E out \in Completions(t, Unclear) :
       /\ orch[t].pc = "planning" => Len(planCalls[t]) <= MaxRounds + 1
       /\ CompletionReturns(t, out)
  \/ \E t \in Tasks : \E out \in {Thrown(ServiceDown), Message(<<Tok("summary")>>)} :
       SynthesisReturns(t, out)
  \/ \E t \in Tasks : \E a \in Answers :
       AnswersPublished < MaxAnswers /\ AnswerTask(t, a)

SpecObserve == InitWith(ServerEvents) /\ [][ObserveNext]_vars

\* One task whose plan delegates two steps to the same agent, while the clock
\* advances or stands still.
KeysNext ==
  \/ \E t \in Tasks : Started = 0 /\ CreateTask(t)
  \/ \E t \in Tasks : Started = 0 /\ StartTask(t)
  \/ \E t \in Tasks : \E out \in Completions(t, {Json(PlanTwice)}) :
       /\ orch[t].pc = "planning" => Len(planCalls[t]) <= MaxRounds
       /\ CompletionReturns(t, out)
  \/ \E t \in Tasks : SynthesisReturns(t, Message(<<Tok("summary")>>))
  \/ Tick

SpecKeys == OrchInit /\ [][KeysNext]_vars

\* One task over the in-memory bus, with a subscriber that answers the
\* orchestrator's questions from inside its callback, and callers that answer
\* them later.
ReplyNext ==
  \/ \E cb \in Repliers : Len(handles) < MaxConsumers /\ MemSubscribe(cb)
  \/ \E t \in Tasks : Started = 0 /\ CreateTask(t)
  \/ \E t \in Tasks : Started = 0 /\ StartTask(t)
  \/ \E t \in Tasks : \E out \in Completions(t, Unclear) :
       /\ orch[t].pc = "planning" => Len(planCalls[t]) <= MaxRounds + 1
       /\ CompletionReturns(t, out)
  \/ \E t \in Tasks : \E out \in {Thrown(ServiceDown), Message(<<Tok("summary")>>)} :
       SynthesisReturns(t, out)
  \/ \E t \in Tasks : \E a \in Answers :
       AnswersPublished < MaxAnswers /\ AnswerTask(t, a)

SpecReply == OrchInit /\ [][ReplyNext]_vars

\* Two tasks orchestrated by the one orchestrator, one after the other or at
\* the same time, their plans having one step each, the clock standing still.
ShareNext ==
  \/ \E t \in Tasks : CreateTask(t)
  \/ \E t \in Tasks : Len(planCalls[t]) = 0 /\ StartTask(t)
  \/ \E t \in Tasks :
       \E out \in Completions(t, {Json(PlanSolo), Json(PlanNamesKey)}) :
         /\ orch[t].pc = "planning" => Len(planCalls[t]) <= MaxRounds
         /\ CompletionReturns(t, out)
  \/ \E t \in Tasks : SynthesisReturns(t, Message(<<Tok("summary")>>))

SpecShare == OrchInit /\ [][ShareNext]_vars

\* how many agent_answer events were published
AgentAnswers ==
  Cardinality({i \in 1..Len(sinceClear) : Get(sinceClear[i], "type") = "agent_answer"})

\* Calls of POST /api/execute, which run at the same time, their planning
\* rounds asking or planning one step, and calls of POST /api/agent/answer
\* for the orchestrator.
SyncNext ==
  \/ \E c \in Tasks : Orchestrate(c)
  \/ \E c \in Tasks :
       \E out \in Completions(c, {<<Tok("here:")>> \o Json(PlanAsk), Json(PlanSolo)}) :
         /\ orch[c].pc = "planning" => Len(planCalls[c]) <= MaxRounds
         /\ SyncCompletionReturns(c, out)
  \/ \E c \in Tasks : \E out \in {Thrown(ServiceDown), Message(<<Tok("summary")>>)} :
       SyncSynthesisReturns(c, out)
  \/ \E a \in Answers : AgentAnswers < MaxAnswers /\ AgentAnswer(Orchestrator, a)

SpecSync == OrchInit /\ [][SyncNext]_vars

\* the texts of tool arguments: an object, and a truncated one
GoodArgs == Json([path |-> "/tmp/a"])
BadArgs == <<Tok("{"), Tok("path")>>

\* what the Completion Service answers the first completion of a direct
\* Agent.execute call with
FirstCompletions ==
  { Thrown(ServiceDown),
    Message(<<Tok("done")>>),
    ToolCalls(<<Call("read_file", GoodArgs)>>),
    ToolCalls(<<Call("search", GoodArgs), Call("write_file", BadArgs)>>) }

\* how callTool settles
ToolOutcomes ==
  { Thrown(<<"MCP server not connected">>),
    Thrown(<<"Tool call timeout">>),
    Message(<<Tok("contents")>>) }

\* whether initializeMCPServers was called for the agent
Initialized(agent) ==
  \E i \in 1..Len(sinceClear) :
    /\ Get(sinceClear[i], "type") \in {"agent_mcp_connected", "agent_mcp_error"}
    /\ Get(sinceClear[i], "agentId") = agent

\* how many Agent.execute calls published agent_started
Executed ==
  Cardinality({i \in 1..Len(sinceClear) : Get(sinceClear[i], "type") = "agent_started"})

\* Agents, with and without tools, are called directly with every kind of
\* task and every outcome of the Completion Service and the Tool Runner.
AgentNext ==
  \/ \E agent \in RegisteredAgents : \E connected \in BOOLEAN :
       ~Initialized(agent) /\ InitializeMCPServers(agent, connected)
  \/ \E agent \in {"code", "design"} :
       \E task \in {StringTask("T1"), ObjectTask(<<"T2">>), UndefinedTask} :
         Executed < MaxExecutes /\ Execute(agent, task)
  \/ \E out \in FirstCompletions : CompletionReturns("caller", out)
  \/ \E out \in ToolOutcomes : ToolReturns("caller", out)
  \/ \E out \in {Thrown(ServiceDown), Message(<<Tok("done")>>)} :
       FinalReturns("caller", out)

SpecAgent == OrchInit /\ [][AgentNext]_vars

\* ------------------------------------------------------------------ claims

\* the last n entries of s
LastN(s, n) == SubSeq(s, Len(s) - n + 1, Len(s))

Min(a, b) == IF a < b THEN a ELSE b

\* how many live subscriptions of callback cb an event published at logical
\* time s is owed to: those subscribed before it and not undone before it
Owed(cb, s) ==
  Cardinality({k \in 1..Len(subLog) :
    /\ subLog[k].callback = cb
    /\ Before(subLog[k].at, s)
    /\ (subLog[k].undone => ~Before(subLog[k].until, s))})

\* how many times callback cb was invoked with the event published at s
Got(cb, s) == Cardinality({j \in 1..Len(calls[cb]) : calls[cb][j].at = s})

\* C1: on the in-memory bus every callback has been invoked, for each event
\* published so far, once per subscription of it that was live when the event
\* was published (subscribed before, not yet unsubscribed), with that very
\* event, and its invocations are in publish order.
C1_ExactDelivery ==
  backend = "memory" =>
    \A cb \in Callbacks :
      /\ \A i \in 1..Len(sinceClear) :
           Got(cb, <<clears, i>>) = Owed(cb, <<clears, i>>)
      /\ \A j \in 1..Len(calls[cb]) :
           /\ calls[cb][j].at[1] = clears
           /\ calls[cb][j].at[2] \in 1..Len(sinceClear)
           /\ calls[cb][j].event = sinceClear[calls[cb][j].at[2]]
           /\ \A k \in 1..(j - 1) : ~Before(calls[cb][j].at, calls[cb][k].at)

\* C2: in both backends the retention buffer holds at most maxQueueSize (1000)
\* events and is, oldest first, the most recent min(n, 1000) of the n events
\* published since the last clearQueue; after 1001 publishes its first entry
\* is the second event published.
C2_RetentionBuffer ==
  /\ Len(eventQueue) <= maxQueueSize
  /\ eventQueue = LastN(sinceClear, Min(Len(sinceClear), maxQueueSize))
  /\ (Len(sinceClear) = maxQueueSize + 1 => eventQueue[1] = sinceClear[2])

\* C2's case: 1001 events were published and the oldest one was evicted.
C2_Witness ==
  /\ Len(sinceClear) = maxQueueSize + 1
  /\ Len(eventQueue) = maxQueueSize
  /\ eventQueue[1] = sinceClear[2]
  /\ eventQueue[1] # sinceClear[1]

\* C3: a callback is never invoked with an event that was published after
\* every function returned by a subscribe(callback) call had been invoked.
C3_NoDeliveryAfterUnsubscribe ==
  \A cb \in Callbacks :
    \A j \in 1..Len(calls[cb]) :
      \E k \in 1..Len(subLog) :
        /\ subLog[k].callback = cb
        /\ (subLog[k].undone => ~Before(subLog[k].until, calls[cb][j].at))

\* C4: invoking a function returned by subscribe again, after its first
\* invocation, leaves the subscriber set, the listeners and the broker's
\* consumers as they were.
C4_SecondUnsubscribeNoOp ==
  [][\A h \in 1..Len(handles) :
       (subLog[h].undone /\ (MemUnsubscribe(h) \/ RabbitUnsubscribe(h)))
         => UNCHANGED <<subscribers, listeners, consumers>>]_vars

\* the event a caller publishes to answer the clarification of task t
AnswerEvent(t, a) == [type |-> "task_clarification_answer", taskId |-> t, answer |-> a]

\* the planning responses with a non-empty clarifications list
Asking == {<<Tok("here:")>> \o Json(PlanAsk)}

\* the planning responses without a JSON object, or with one that fails to parse
Malformed == {<<Tok("sorry")>>, <<Tok("{"), Tok("oops"), Tok("}")>>}

\* C5: when a planning round returns a non-empty clarifications list the task
\* becomes waiting_for_clarification; a task_clarification_answer published
\* afterwards with its taskId sets it back to running and makes the next
\* planning call, whose request is the request of the round (in the first
\* round the task's original request) concatenated with the answer.
C5_ClarificationRound ==
  [][\A t \in Tasks :
       /\ \A r \in Asking :
            (orch[t].pc = "planning" /\ CompletionReturns(t, Message(r)))
              => tasks'[t].status = "waiting_for_clarification"
       /\ \A a \in Answers :
            (tasks[t].status = "waiting_for_clarification" /\ Publish(AnswerEvent(t, a)))
              => /\ tasks'[t].status = "running"
                 /\ planCalls'[t] =
                      Append(planCalls[t],
                             Clarified(tasks[t].clarification.context.originalRequest, a))
                 /\ Len(planCalls[t]) = 1
                      => Last(planCalls'[t]) = RequestOf(t) \o <<"Clarifications: ", a>>
                 /\ orch'[t].pc = "planning"]_vars

\* C5's case: a task asked for a clarification, was answered, and planning
\* was called again with the original request and the answer.
C5_Witness ==
  \E t \in Tasks :
    /\ tasks[t].status = "running"
    /\ orch[t].pc = "planning"
    /\ planCalls[t] = <<RequestOf(t), RequestOf(t) \o <<"Clarifications: ", "blue">> >>
    /\ \E i \in 1..Len(sinceClear) : Get(sinceClear[i], "type") = "orchestrator_needs_clarification"

\* C6: when two tasks wait for a clarification, an answer carrying the taskId
\* of one resumes that one only: the other stays waiting_for_clarification,
\* its orchestration where it was and its listener registered, whichever
\* wait was registered first.
C6_AnswerResumesOnlyItsTask ==
  [][\A t \in Tasks : \A u \in Tasks \ {t} : \A a \in Answers :
       ( /\ tasks[t].status = "waiting_for_clarification"
         /\ tasks[u].status = "waiting_for_clarification"
         /\ Publish(AnswerEvent(t, a)) )
       => /\ tasks'[t].status = "running"
          /\ Len(planCalls'[t]) = Len(planCalls[t]) + 1
          /\ WaitListener(t) \notin Range(listeners')
          /\ tasks'[u] = tasks[u]
          /\ orch'[u] = orch[u]
          /\ planCalls'[u] = planCalls[u]
          /\ WaitListener(u) \in Range(listeners')]_vars

\* C6's case: t2 registered its wait first and still waits, with its listener,
\* after the answer for t1, whose wait was registered second, resumed t1.
C6_Witness ==
  /\ tasks["t1"].status = "running"
  /\ Len(planCalls["t1"]) = 2
  /\ Len(planCalls["t2"]) = 1
  /\ tasks["t2"].status = "waiting_for_clarification"
  /\ listeners = <<WaitListener("t2")>>
  /\ \E i, j \in 1..Len(sinceClear) :
       /\ i < j
       /\ Get(sinceClear[i], "type") = "orchestrator_needs_clarification"
       /\ Get(sinceClear[i], "taskId") = "t2"
       /\ Get(sinceClear[j], "type") = "orchestrator_needs_clarification"
       /\ Get(sinceClear[j], "taskId") = "t1"

\* C7: the context passed to the agent.execute call of a step that lists
\* dependencies holds, under dependencies, the result of the first step of
\* the plan (the step that the second step of the plan names).
C7_DependencyResultPassed ==
  \A t \in Tasks : \A i \in 1..Len(delegations[t]) :
    LET d == delegations[t][i]
    IN (d.step = 2 /\ d.deps # <<>>)
         => \E k \in DOMAIN d.context.dependencies :
              d.context.dependencies[k] = d.earlier[1]

\* the orchestrator_error events of task t that report a missing agent
MissingErrors(t, agentId) ==
  {i \in 1..Len(sinceClear) :
     /\ Get(sinceClear[i], "type") = "orchestrator_error"
     /\ Get(sinceClear[i], "taskId") = t
     /\ sinceClear[i].error = <<"Agent ", agentId, " not found">>}

\* C8: once a plan whose first step names the unregistered agent "tester" and
\* whose second step names the registered agent "code" is being carried out,
\* exactly one orchestrator_error was published for the first step, no call
\* was delegated to "tester", the second step was delegated, and a successful
\* synthesis ends the task in completed.
C8_MissingAgentSkipped ==
  /\ [](\A t \in Tasks :
          orch[t].plan = PlanMissing.plan
            => /\ Cardinality(MissingErrors(t, "tester")) = 1
               /\ \A i \in 1..Len(delegations[t]) : delegations[t][i].agentId # "tester"
               /\ \E i \in 1..Len(delegations[t]) :
                    /\ delegations[t][i].step = 2
                    /\ delegations[t][i].agentId = "code")
  /\ [][\A t \in Tasks :
          (orch[t].plan = PlanMissing.plan
             /\ SynthesisReturns(t, Message(<<Tok("summary")>>)))
            => tasks'[t].status = "completed"]_vars

\* C8's case: a task whose plan named the unregistered agent completed.
C8_Witness ==
  \E t \in Tasks :
    /\ orch[t].plan = PlanMissing.plan
    /\ tasks[t].status = "completed"
    /\ Cardinality(MissingErrors(t, "tester")) = 1
    /\ Len(orch[t].results) = 1

\* C9, as stated: a planning response without a JSON object, or with one that
\* fails to parse, yields the empty plan with the raw text as analysis, no
\* delegation, a synthesis over zero results, and every outcome of that
\* synthesis ends the task in completed.
C9_MalformedAlwaysCompletes ==
  [][\A t \in Tasks :
       /\ \A r \in Malformed :
            (orch[t].pc = "planning" /\ CompletionReturns(t, Message(r)))
              => /\ orch'[t].plan = <<>>
                 /\ orch'[t].analysis = r
                 /\ delegations'[t] = delegations[t]
                 /\ orch'[t].pc = "synthesizing"
                 /\ Last(synthCalls'[t]).results = <<>>
       /\ (orch[t].pc = "synthesizing" /\ orch[t].analysis \in Malformed
             /\ orch'[t].pc # "synthesizing")
            => tasks'[t].status = "completed"]_vars

\* C9, amended: as above, and the task ends in completed when the synthesis
\* succeeds, with no agent results and the raw text as analysis.
C9_MalformedPlanIsEmpty ==
  [][\A t \in Tasks :
       /\ \A r \in Malformed :
            (orch[t].pc = "planning" /\ CompletionReturns(t, Message(r)))
              => /\ orch'[t].plan = <<>>
                 /\ orch'[t].analysis = r
                 /\ delegations'[t] = delegations[t]
                 /\ orch'[t].pc = "synthesizing"
                 /\ Last(synthCalls'[t]).results = <<>>
       /\ (orch[t].pc = "synthesizing" /\ orch[t].analysis \in Malformed
             /\ SynthesisReturns(t, Message(<<Tok("summary")>>)))
            => /\ tasks'[t].status = "completed"
               /\ tasks'[t].result.agentResults = <<>>
               /\ tasks'[t].result.analysis = orch[t].analysis]_vars

\* C9's case: a task planned from a malformed response completed without a
\* delegation.
C9_Witness ==
  \E t \in Tasks :
    /\ tasks[t].status = "completed"
    /\ orch[t].analysis \in Malformed
    /\ delegations[t] = <<>>
    /\ tasks[t].result.agentResults = <<>>

\* the agent_error event and the return value of a failed Agent.execute call
\* of agent with message msg
FailedWith(o, agent, msg) ==
  /\ exec'[o].pc = "returned"
  /\ exec'[o].result = [success |-> FALSE, error |-> msg, agentId |-> agent,
                        agentName |-> AgentName(agent)]
  /\ Len(sinceClear') > Len(sinceClear)
  /\ Get(Last(sinceClear'), "type") = "agent_error"
  /\ Get(Last(sinceClear'), "agentId") = agent
  /\ Last(sinceClear').error = msg

\* C10: no Agent.execute call is rejected (throws to its caller), and when
\* the Completion Service fails, the Tool Runner fails or the arguments of a
\* tool invocation do not parse, agent_error is published with the failure
\* message and {success: false, error, agentId, agentName} returned.
C10_ExecuteNeverThrows ==
  /\ [](\A o \in Owners : exec[o].pc # "rejected")
  /\ [][\A o \in Owners :
          /\ \A out \in FirstCompletions \cup ToolOutcomes :
               (out.kind = "throw" /\
                  (CompletionReturns(o, out) \/ ToolReturns(o, out) \/ FinalReturns(o, out)))
                 => FailedWith(o, exec[o].agent, out.message)
          /\ \A out \in FirstCompletions :
               ( /\ "tool_calls" \in DOMAIN out
                 /\ exec[o].pc = "completion"
                 /\ CompletionReturns(o, out)
                 /\ exec'[o].pc = "returned" )
                 => FailedWith(o, exec[o].agent, SyntaxError)]_vars

\* the index of the last event of the given type about task t published since
\* the last clear, 0 when there is none
LastEventOf(t, type) ==
  LET hits == {i \in 1..Len(sinceClear) :
                 /\ Get(sinceClear[i], "type") = type
                 /\ Get(sinceClear[i], "taskId") = t}
  IN IF hits = {} THEN 0 ELSE CHOOSE i \in hits : \A j \in hits : j <= i

\* C11: whenever orchestrateAsync is suspended or has returned, a task is
\* waiting_for_clarification exactly when its clarification field is set, and
\* then the field holds the questions of the current planning round: those the
\* last orchestrator_needs_clarification event of the task carries, asked
\* about the request of the last planning call, whose orchestration waits.
C11_WaitingIffClarification ==
  \A t \in Tasks :
    tasks[t].status # "absent" =>
      /\ tasks[t].status = "waiting_for_clarification"
           <=> tasks[t].clarification # <<>>
      /\ tasks[t].status = "waiting_for_clarification" =>
           /\ orch[t].pc = "waiting"
           /\ tasks[t].clarification.context.originalRequest = Last(planCalls[t])
           /\ LastEventOf(t, "orchestrator_needs_clarification") > 0
           /\ tasks[t].clarification.questions =
                sinceClear[LastEventOf(t, "orchestrator_needs_clarification")].clarifications
           /\ Len(tasks[t].clarification.questions) > 0

\* C11's case: a task waits in its second planning round, and one that was
\* answered runs without a clarification
C11_Witness ==
  \E t \in Tasks :
    /\ tasks[t].status = "waiting_for_clarification"
    /\ Len(planCalls[t]) = 2
    /\ tasks[t].clarification.context.originalRequest
         = RequestOf(t) \o <<"Clarifications: ", "blue">>

\* the edges of the task state diagram
Edges ==
  { <<"pending", "running">>,
    <<"running", "waiting_for_clarification">>,
    <<"waiting_for_clarification", "running">>,
    <<"running", "completed">>,
    <<"running", "error">> }

Rejected(t, msg) ==
  /\ tasks'[t].status = "error"
  /\ tasks'[t].error = msg
  /\ Len(sinceClear') > Len(sinceClear)
  /\ Last(sinceClear').type = "orchestrator_error"
  /\ Last(sinceClear').taskId = t
  /\ Last(sinceClear').error = msg
  /\ Last(eventQueue') = Last(sinceClear')
  /\ orch'[t].pc = "rejected"
  /\ orch'[t].thrown = msg

\* C13: when the planning call of a task's orchestration fails, or the
\* synthesis completion throws, the task's status becomes error and its error
\* the failure message, an orchestrator_error event with the taskId and the
\* message is published, and the promise of orchestrateAsync rejects with
\* that error.
C13_FailureIsReported ==
  [][\A t \in Tasks :
       /\ (orch[t].pc = "planning" /\ CompletionReturns(t, Thrown(ServiceDown)))
            => Rejected(t, <<"Planning failed: ">> \o ServiceDown)
       /\ SynthesisReturns(t, Thrown(ServiceDown))
            => Rejected(t, ServiceDown)]_vars

\* C13's case: a synthesis that threw, after steps were delegated
C13_Witness ==
  \E t \in Tasks :
    /\ orch[t].pc = "rejected"
    /\ orch[t].thrown = ServiceDown
    /\ Len(synthCalls[t]) = 1
    /\ Len(delegations[t]) > 0

\* C14: on the RabbitMQ bus a publish made while disconnected completes: the
\* enriched event is appended to the local buffer and nothing is handed to
\* the broker, no queue receiving a message.
C14_DisconnectedPublishIsLocal ==
  [][\A ev \in PartialEvents :
       (backend = "rabbitmq" /\ ~isConnected /\ Publish(ev))
         => /\ amqp' = amqp
            /\ consumers' = consumers
            /\ sinceClear' = Append(sinceClear,
                               Enrich(ev, <<clears, Len(sinceClear) + 1>>, clock))
            /\ eventQueue' = Push(eventQueue, Last(sinceClear'))]_vars

\* C14's case: of two events the first went to the broker and the second,
\* published after the connection closed, was only buffered
C14_Witness ==
  /\ backend = "rabbitmq"
  /\ ~isConnected
  /\ channel # 0
  /\ Len(eventQueue) = 2
  /\ amqp.published.at = eventQueue[1].id

\* the consumers the broker holds for callback cb
ConsumersOf(cs, cb) == {t \in DOMAIN cs : cs[t].callback = cb}

C15_SubscriptionSurvivesReconnect ==
  \A h \in 1..Len(handles) :
    ( /\ handles[h].kind = "rabbitmq"
      /\ ~subLog[h].undone
      /\ isConnected
      /\ amqp.published.channel = channel
      /\ Before(subLog[h].at, amqp.published.at) )
    => \/ \E i \in 1..Len(calls[handles[h].callback]) :
            calls[handles[h].callback][i].at = amqp.published.at
       \/ /\ handles[h].tag \in DOMAIN consumers
          /\ \E m \in Range(consumers[handles[h].tag].queue) :
               m.at = amqp.published.at

\* the calls of callback cb with the event of stamp at
CallsWith(cb, at) == {i \in 1..Len(calls[cb]) : calls[cb][i].at = at}

\* the subscribe calls of callback cb made before stamp at
SubscribedBefore(cb, at) ==
  {k \in 1..Len(subLog) : subLog[k].callback = cb /\ Before(subLog[k].at, at)}

\* C19: on both buses an event is handed to a callback at most once for each
\* subscribe call of the callback made before the event was published, and a
\* RabbitMQ queue holds no message published before its subscription: no
\* subscription receives an event that is older than itself.
C19_NoReplayToNewSubscription ==
  /\ \A cb \in Callbacks : \A i \in 1..Len(calls[cb]) :
       Cardinality(CallsWith(cb, calls[cb][i].at))
         <= Cardinality(SubscribedBefore(cb, calls[cb][i].at))
  /\ \A t \in DOMAIN consumers : \A m \in Range(consumers[t].queue) :
       Before(consumers[t].since, m.at)

\* C19's case: a callback subscribed between two events was called with the
\* second one alone, the first staying in the retention buffer
C19_Witness ==
  \E cb \in Callbacks :
    /\ Len(eventQueue) = 2
    /\ Len(subLog) = 1
    /\ subLog[1].callback = cb
    /\ subLog[1].at = <<0, 1>>
    /\ Len(calls[cb]) = 1
    /\ calls[cb][1].at = <<0, 2>>

C18_ReconnectsUntilConnected ==
  /\ [](~isConnected => pendingConnects > 0)
  /\ \A n \in 0..(MaxAttempts + MaxConnects) :
       (~isConnected /\ channel < MaxConnects /\ amqp.connects = n)
         ~> (amqp.connects > n)
  /\ (~isConnected /\ channel < MaxConnects) ~> isConnected

\* C18's case: the bus is connected again after a connection close and a
\* failed attempt
C18_Witness ==
  /\ isConnected
  /\ channel = 2
  /\ amqp.connects > 2

\* C20: every event stored in the retention buffer or handed to a callback
\* carries the id and the timestamp publish generated for it, and no two
\* published events carry the same id, whatever the caller's partial event
\* holds. (The clock stands still in the specification checked.)
C20_GeneratedIdAndTimestamp ==
  /\ \A i \in 1..Len(sinceClear) :
       /\ sinceClear[i].id = <<clears, i>>
       /\ sinceClear[i].timestamp = clock
  /\ \A i, j \in 1..Len(sinceClear) :
       i # j => sinceClear[i].id # sinceClear[j].id
  /\ \A i \in 1..Len(eventQueue) : eventQueue[i] \in Range(sinceClear)
  /\ \A cb \in Callbacks : \A k \in 1..Len(calls[cb]) :
       /\ calls[cb][k].event.id = calls[cb][k].at
       /\ calls[cb][k].event.timestamp = clock

\* the subscribe calls whose unsubscribe function has not been invoked
LiveCalls == {k \in 1..Len(subLog) : ~subLog[k].undone}

\* C21: getSubscriberCount(), the size of the subscribers set, never exceeds
\* the number of subscribe calls whose unsubscribe function has not been
\* invoked, and on the in-memory bus it equals that number.
C21_SubscriberCount ==
  /\ Cardinality(subscribers) <= Cardinality(LiveCalls)
  /\ backend = "memory" => Cardinality(subscribers) = Cardinality(LiveCalls)

\* C22: on both buses, the broker being connected, what subscribe returned
\* can be called as the unsubscribe function: once the server's close handler
\* has called it, the subscription's subscriber is gone from the subscriber
\* count, and no listener and no consumer of it is left.
C22_ReturnValueUnsubscribes ==
  \A h \in 1..Len(handles) :
    subLog[h].closed
      => /\ handles[h].sub \notin subscribers
         /\ handles[h].tag \notin DOMAIN consumers
         /\ Cardinality({i \in 1..Len(listeners) :
                           listeners[i] = CallbackListener(handles[h].callback)})
              <= Cardinality({k \in 1..Len(subLog) :
                                /\ subLog[k].callback = handles[h].callback
                                /\ ~subLog[k].closed})

\* the positions of the events of the given type about task t
EventsOf(t, type) ==
  {i \in 1..Len(sinceClear) :
     /\ Get(sinceClear[i], "type") = type
     /\ Get(sinceClear[i], "taskId") = t}

\* the positions of the events of the given types published by the agents the
\* orchestrator delegates to
AgentEvents(types) ==
  {i \in 1..Len(sinceClear) :
     /\ Get(sinceClear[i], "type") \in types
     /\ Get(sinceClear[i], "agentId") \in RegisteredAgents}

\* C23: the delegated steps of an orchestration never overlap: between two
\* orchestrator_delegating events of the task the agent of the earlier one
\* has published agent_completed or agent_error, the call of a step is made
\* right after its orchestrator_delegating event, and at most one delegated
\* agent has started and not yet ended.
C23_StepsDoNotOverlap ==
  /\ \A t \in Tasks : \A i, j \in EventsOf(t, "orchestrator_delegating") :
       i < j => \E k \in AgentEvents({"agent_completed", "agent_error"}) :
                  /\ i < k /\ k < j
                  /\ sinceClear[k].agentId = sinceClear[i].agentId
  /\ \A t \in Tasks :
       Len(delegations[t]) = Cardinality(EventsOf(t, "orchestrator_delegating"))
  /\ Cardinality(AgentEvents({"agent_started"}))
       - Cardinality(AgentEvents({"agent_completed", "agent_error"})) \in {0, 1}

\* C23's case: the second step of a plan is executing after the first ended
C23_Witness ==
  \E t \in Tasks :
    /\ Len(delegations[t]) = 2
    /\ orch[t].pc = "delegated"
    /\ exec[t].pc = "completion"
    /\ Cardinality(AgentEvents({"agent_completed", "agent_error"})) = 1

\* the types of the events orchestrateAsync publishes
OrchTypes ==
  {"orchestrator_started", "orchestrator_plan_created", "orchestrator_delegating",
   "orchestrator_completed", "orchestrator_error",
   "orchestrator_needs_clarification"}

\* the events orchestrateAsync published about task t in its present planning
\* round, that is from its last orchestrator_started event on
RoundEvents(t) ==
  LET r == LastEventOf(t, "orchestrator_started")
  IN IF r = 0 THEN <<>>
     ELSE SelectSeq(SubSeq(sinceClear, r, Len(sinceClear)),
                    LAMBDA e : Get(e, "taskId") = t /\ Get(e, "type") \in OrchTypes)

\* the entries of a sequence of events that have the given type
OfType(evs, type) == SelectSeq(evs, LAMBDA e : e.type = type)

\* the steps of a plan whose agent is registered
Registered(steps) == SelectSeq(steps, LAMBDA st : st.agentId \in RegisteredAgents)

\* C24: in a planning round without clarifications the events of the task are
\* orchestrator_started first, orchestrator_plan_created second and only
\* there, then one orchestrator_delegating for each step with a registered
\* agent, in the order of the plan, and orchestrator_completed, which is
\* published only after every such step was delegated, is the last.
C24_EventOrder ==
  \A t \in Tasks :
    LET evs == RoundEvents(t)
    IN /\ Len(evs) > 0 => evs[1].type = "orchestrator_started"
       /\ \A i \in 1..Len(evs) :
            /\ evs[i].type = "orchestrator_plan_created" => i = 2
            /\ evs[i].type \in {"orchestrator_delegating", "orchestrator_completed"}
                 => i > 2 /\ evs[2].type = "orchestrator_plan_created"
            /\ evs[i].type = "orchestrator_completed" => i = Len(evs)
       /\ (Len(evs) > 1 /\ evs[2].type = "orchestrator_plan_created") =>
            LET deleg == OfType(evs, "orchestrator_delegating")
                steps == Registered(evs[2].plan)
            IN /\ Len(deleg) <= Len(steps)
               /\ \A i \in 1..Len(deleg) :
                    /\ deleg[i].agentId = steps[i].agentId
                    /\ deleg[i].task = steps[i].task
               /\ evs[Len(evs)].type = "orchestrator_completed"
                    => Len(deleg) = Len(steps)

\* C24's case: a round that delegated the two steps of its plan in order and
\* completed
C24_Witness ==
  \E t \in Tasks :
    LET evs == RoundEvents(t)
    IN /\ Len(evs) = 5
       /\ evs[5].type = "orchestrator_completed"
       /\ Get(evs[3], "agentId") = "code"
       /\ Get(evs[4], "agentId") = "design"

\* the events published by the step being taken
NewEvents == SubSeq(sinceClear', Len(sinceClear) + 1, Len(sinceClear'))

\* C25: when the plan of a planning round has a non-empty clarifications list
\* and lists a step as well, the round publishes no orchestrator_plan_created
\* and delegates no step: the task waits for the answer. Steps are delegated
\* only in a round that published orchestrator_plan_created.
C25_NoDelegationWhileAsking ==
  [][\A t \in Tasks :
       /\ (orch[t].pc = "planning" /\ CompletionReturns(t, Message(Json(PlanBoth))))
            => /\ delegations'[t] = delegations[t]
               /\ \A i \in 1..Len(NewEvents) :
                    NewEvents[i].type \notin
                      {"orchestrator_plan_created", "orchestrator_delegating"}
               /\ tasks'[t].status = "waiting_for_clarification"
               /\ orch'[t].pc = "waiting"
       /\ Len(delegations'[t]) > Len(delegations[t])
            => LET evs == OfType(RoundEvents(t)', "orchestrator_needs_clarification")
               IN evs = <<>>]_vars

\* C25's case: the first round asked although its plan listed a step, and the
\* round after the answer delegated
C25_Witness ==
  \E t \in Tasks :
    /\ Len(planCalls[t]) = 2
    /\ Len(delegations[t]) = 2
    /\ Cardinality(EventsOf(t, "orchestrator_needs_clarification")) = 1
    /\ Cardinality(EventsOf(t, "orchestrator_plan_created")) = 1
    /\ EventsOf(t, "orchestrator_needs_clarification") # {}

\* C26: a delegated step whose execute returns {success: false} does not
\* abort the orchestration: the task stays running, the failed result is
\* appended to the results, a later step with a registered agent is delegated
\* next, and otherwise synthesis is called with the results, the failed one
\* included; a completed task's agentResults are the results synthesis got.
C26_FailedStepContinues ==
  /\ [][\A t \in Tasks :
          (orch[t].pc = "delegated" /\ CompletionReturns(t, Thrown(ServiceDown)))
            => /\ tasks'[t].status = "running"
               /\ orch'[t].results
                    = Append(orch[t].results,
                             [success |-> FALSE, error |-> ServiceDown,
                              agentId |-> exec[t].agent,
                              agentName |-> AgentName(exec[t].agent)])
               /\ IF \E n \in (orch[t].step + 1)..Len(orch[t].plan) :
                       orch[t].plan[n].agentId \in RegisteredAgents
                  THEN /\ orch'[t].pc = "delegated"
                       /\ Len(delegations'[t]) = Len(delegations[t]) + 1
                  ELSE /\ orch'[t].pc = "synthesizing"
                       /\ Last(synthCalls'[t]).results = orch'[t].results]_vars
  /\ [](\A t \in Tasks :
          tasks[t].status = "completed"
            => tasks[t].result.agentResults = Last(synthCalls[t]).results)

\* C26's case: a task completed whose first step failed and whose second step
\* succeeded
C26_Witness ==
  \E t \in Tasks :
    /\ tasks[t].status = "completed"
    /\ Len(tasks[t].result.agentResults) = 2
    /\ ~tasks[t].result.agentResults[1].success
    /\ tasks[t].result.agentResults[2].success

\* whether an orchestrator_error event reports the failure of the
\* orchestration rather than a step whose agent is not registered
Fatal(e) == e.type = "orchestrator_error" /\ e.error[1] # "Agent "

\* C27: whenever a subscriber's callback is called with
\* orchestrator_completed, the task has status completed and the event's
\* result; with orchestrator_needs_clarification, status
\* waiting_for_clarification and the event's questions; with the fatal
\* orchestrator_error, status error.
C27_StoreAgreesWithEvents ==
  \A cb \in Callbacks : \A k \in 1..Len(calls[cb]) :
    LET e == calls[cb][k].event
        task == calls[cb][k].seen
    IN /\ e.type = "orchestrator_completed"
            => task.status = "completed" /\ task.result = e.result
       /\ e.type = "orchestrator_needs_clarification"
            => /\ task.status = "waiting_for_clarification"
               /\ task.clarification # <<>>
               /\ task.clarification.questions = e.clarifications
       /\ Fatal(e) => task.status = "error"

\* the clarification listeners of task t registered on the bus
WaitListeners(t) == {i \in 1..Len(listeners) : listeners[i] = WaitListener(t)}

\* C28: a task has at most one clarification listener on the bus, it has one
\* exactly while its status is waiting_for_clarification, the answer that
\* resumes the task removes it, and none is left once the task is completed
\* or failed, however many clarification rounds it went through.
C28_OneListenerWhileWaiting ==
  /\ [](\A t \in Tasks :
          /\ Cardinality(WaitListeners(t)) <= 1
          /\ tasks[t].status = "waiting_for_clarification"
               <=> WaitListeners(t) # {})
  /\ [][\A t \in Tasks : \A a \in Answers :
          (tasks[t].status = "waiting_for_clarification" /\ Publish(AnswerEvent(t, a)))
            => Len(listeners') = Len(listeners) - 1]_vars

\* C28's case: a task reached a terminal state after a clarification round
\* and an answer, and the bus has no listener
C28_Witness ==
  \E t \in Tasks :
    /\ tasks[t].status \in {"completed", "error"}
    /\ Len(planCalls[t]) = 2
    /\ listeners = <<>>

\* what the runtime holds that will continue the orchestration of task t
\* without a caller: a request to the Completion Service or the Tool Runner
\* in flight. waitForClarificationAnswer registers a listener and sets no
\* timer, so a wait adds nothing to it.
Scheduled(t) ==
  \/ exec[t].pc \in {"completion", "tool", "final"}
  \/ orch[t].pc = "synthesizing"

\* C29: a task that is waiting_for_clarification leaves that status also when
\* no answer is ever published: while it waits, something that ends the wait
\* without a caller, a timeout, is scheduled for it.
C29_WaitingEnds ==
  \A t \in Tasks :
    tasks[t].status = "waiting_for_clarification" => Scheduled(t)

\* C30: the clarification rounds of a task are bounded: a task that was asked
\* and answered in each of the MaxRounds + 1 planning rounds the Completion
\* Service answers is failed and not planned again.
C30_RoundsBounded ==
  \A t \in Tasks :
    Len(planCalls[t]) > MaxRounds + 1 => tasks[t].status = "error"

\* C31: the results of delegated steps never overwrite each other in
\* taskResults: once the steps of a plan have returned, the map holds one
\* entry for each result the orchestration collected, also when two steps
\* went to the same agent and returned at the same reading of the clock.
C31_ResultsDoNotCollide ==
  \A t \in Tasks :
    orch[t].pc \in {"delegated", "synthesizing", "done"}
      => Cardinality(DOMAIN taskResults) = Len(orch[t].results)

\* the types of the events published by the step being taken
NewTypes == [i \in 1..Len(NewEvents) |-> NewEvents[i].type]

\* C32: every Agent.execute call publishes agent_started and then
\* agent_thinking before the Completion Service is invoked; agent_tool_calls
\* is published exactly when the completion returned tool invocations, and
\* before anything else of the call; the call ends with exactly one of
\* agent_completed and agent_error as its last event, and returns success:
\* true exactly when that event is agent_completed.
C32_ExecuteEventOrder ==
  [][\A o \in Owners :
       /\ (exec[o].pc \in {"idle", "returned", "rejected"} /\ exec'[o] # exec[o])
            => /\ NewTypes = <<"agent_started", "agent_thinking">>
               /\ exec'[o].pc = "completion"
       /\ \A out \in FirstCompletions :
            (exec[o].pc = "completion" /\ CompletionReturns(o, out))
              => /\ "tool_calls" \in DOMAIN out
                      <=> (NewTypes # <<>> /\ NewTypes[1] = "agent_tool_calls")
                 /\ \A i \in 2..Len(NewTypes) : NewTypes[i] # "agent_tool_calls"
       /\ (exec[o].pc \in {"completion", "tool", "final"} /\ exec'[o] # exec[o])
            => /\ \A i \in 1..Len(NewTypes) :
                    NewTypes[i] \in {"agent_completed", "agent_error"}
                      <=> (i = Len(NewTypes) /\ exec'[o].pc = "returned")
               /\ exec'[o].pc = "returned"
                    => /\ NewTypes # <<>>
                       /\ exec'[o].result.success
                            <=> Last(NewTypes) = "agent_completed"]_vars

\* the answers to task t published after position i
AnswersAfter(t, i) ==
  {j \in (i + 1)..Len(sinceClear) :
     /\ Get(sinceClear[j], "type") = "task_clarification_answer"
     /\ Get(sinceClear[j], "taskId") = t}

\* C33: no answer is lost: once a task_clarification_answer for a task has
\* been published after the task's last orchestrator_needs_clarification
\* event, by a caller or from inside a subscriber's callback for that event,
\* the orchestration has received it and the task waits no longer.
C33_AnswerAfterQuestionResumes ==
  \A t \in Tasks :
    LET i == LastEventOf(t, "orchestrator_needs_clarification")
    IN (i > 0 /\ AnswersAfter(t, i) # {})
         => /\ tasks[t].status # "waiting_for_clarification"
            /\ orch[t].pc # "waiting"

\* the fatal orchestrator_error events published about task t
FatalErrors(t) ==
  {i \in EventsOf(t, "orchestrator_error") : Fatal(sinceClear[i])}

\* C34: the failure of an orchestration is reported once, however many
\* clarification rounds went before it: a task whose orchestrateAsync call
\* was rejected has exactly one fatal orchestrator_error event, and no task
\* ever has more than one.
C34_OneFatalError ==
  \A t \in Tasks :
    /\ Cardinality(FatalErrors(t)) <= 1
    /\ orch[t].pc = "rejected" => Cardinality(FatalErrors(t)) = 1

\* C35: on the in-memory bus a subscriber whose callback throws keeps no
\* event from the others: every callback, throwing or not, has been called
\* once with each event published while a subscription of it was registered,
\* publish returning to its caller after the last of them.
C35_ThrowingSubscriberIsolated ==
  backend = "memory" =>
    \A cb \in Callbacks \cup Throwers : \A i \in 1..Len(sinceClear) :
      Got(cb, <<clears, i>>) = Owed(cb, <<clears, i>>)

\* the listeners of callback cb registered on the bus
ListenersOf(cb) == {i \in 1..Len(listeners) : listeners[i] = CallbackListener(cb)}

\* C36: on the in-memory bus subscriptions are independent also when they
\* were made with the same callback: the callback is registered once for each
\* subscribe call of it whose unsubscribe function has not been invoked, so it
\* runs once per event for each of them, however often the unsubscribe
\* function of another subscription was invoked.
C36_SameCallbackIndependent ==
  backend = "memory" =>
    \A cb \in Callbacks :
      Cardinality(ListenersOf(cb))
        = Cardinality({k \in LiveCalls : subLog[k].callback = cb})

\* C37: the dependency results handed to a delegated step are results of
\* earlier steps of the same orchestrateAsync call, never a result recorded
\* for another task or in an earlier orchestration.
C37_DependenciesFromOwnCall ==
  \A t \in Tasks : \A i \in 1..Len(delegations[t]) :
    LET d == delegations[t][i]
    IN \A k \in DOMAIN d.context.dependencies :
         d.context.dependencies[k] \in Range(d.earlier)

\* the orchestrate calls suspended in askClarification
WaitingCalls == {c \in Tasks : orch[c].pc = "waiting"}

\* C38: in the synchronous orchestrate path one agent_answer event resumes
\* one pending clarification exchange: when two orchestrate calls wait in
\* askClarification, the job that publishes an answer resumes at most one of
\* them and the other goes on waiting.
C38_OneAnswerOneExchange ==
  [][(Len(sinceClear') > Len(sinceClear)
        /\ sinceClear'[Len(sinceClear) + 1].type = "agent_answer")
       => Cardinality(WaitingCalls \ WaitingCalls') <= 1]_vars

\* C39: close() leaves the bus disconnected and schedules no reconnection:
\* the connection closing because of it starts no connect() timer, so the
\* number of connect() calls scheduled or in flight is what it was before.
C39_CloseSchedulesNoReconnect ==
  [][amqp'.closes > amqp.closes
       => ~isConnected' /\ pendingConnects' = pendingConnects]_vars

\* the positions of the events in the snapshot the connection handler sent
\* before it made subscribe call h: the retention buffer of that moment
\* (fewer than maxQueueSize events, no clearQueue since)
Snapshot(h) == 1..subLog[h].at[2]

\* the messages waiting in the broker's queues for callback cb
Queued(cb) ==
  UNION {{m.at : m \in Range(consumers[t].queue)} : t \in ConsumersOf(consumers, cb)}

\* C40: an observer connected to the WebSocket bridge gets every event of the
\* bus exactly once: an event in the snapshot sent at connection is not
\* relayed, and an event published after it, the connection being open, has
\* been relayed once or waits in the queue of the observer's subscription.
C40_SnapshotOrRelayOnce ==
  \A h \in 1..Len(handles) :
    ~subLog[h].undone =>
      \A i \in 1..Len(sinceClear) :
        LET cb == handles[h].callback
        IN IF i \in Snapshot(h)
           THEN Got(cb, <<clears, i>>) = 0 /\ <<clears, i>> \notin Queued(cb)
           ELSE \/ Got(cb, <<clears, i>>) = 1 /\ <<clears, i>> \notin Queued(cb)
                \/ Got(cb, <<clears, i>>) = 0 /\ <<clears, i>> \in Queued(cb)

====
